---- MODULE Spec2Model ----
(***************************************************************************)
(* A model of the numeric core of build-your-own-nn: the rank-limited      *)
(* Tensor (src/src/tensor.rs), the loss functions (src/src/loss.rs), the   *)
(* Linear and Activation layers (src/src/linear.rs, src/src/activation.rs) *)
(* and the sequential Network with its builder                             *)
(* (src/src/neural_network.rs).                                            *)
(*                                                                         *)
(* f32 values are modelled as extended rationals <<n, d>>:                 *)
(*   d > 0, gcd(|n|, d) = 1   the finite value n/d                         *)
(*   <<1, 0>>, <<-1, 0>>      +infinity, -infinity                         *)
(*   <<0, 0>>                 NaN                                          *)
(* A finite value is kept exactly while |n| and d fit the mantissa         *)
(* (Mantissa); beyond it the result of an operation is rounded toward      *)
(* zero, to zero when it is too small and to an infinity when it is too    *)
(* large. Infinities and NaN arise as in IEEE-754 also from division by    *)
(* zero, 0 * inf and inf - inf. The sign of zero is not modelled.          *)
(*                                                                         *)
(* usize values are natural numbers: the dimensions of the model are far   *)
(* below usize::MAX, and a shape whose product exceeds it is not modelled. *)
(***************************************************************************)
EXTENDS Integers, Sequences, FiniteSets, TLC

\* ------------------------------------------------------------------------
\* Bounds of the model
\* ------------------------------------------------------------------------
\* largest size of one tensor dimension among the enumerated operands
MaxDim == 2
\* largest number of elements of an enumerated operand
MaxElems == 4
\* the exponent range of the model's exp before it overflows or underflows
ExpMax == 4
\* largest in_features and out_features of a Linear layer
MaxFeat == 2
\* largest batch size (number of rows) of the tensors handed to a layer
MaxBatch == 1
\* largest initial state of the random generator handed to Linear::new
MaxSeed == 0
\* largest number of calls made on one layer
MaxCalls == 3
\* largest number of layers added to a NetworkBuilder
MaxLayers == 2
\* largest number of epochs asked of fit
MaxEpochs == 2
\* largest number of loss_gradient calls made on a NetworkBuilder
MaxLossCalls == 2

\* ------------------------------------------------------------------------
\* f32 arithmetic
\* ------------------------------------------------------------------------
Abs(i) == IF i < 0 THEN -i ELSE i

Sgn(i) == IF i < 0 THEN -1 ELSE IF i > 0 THEN 1 ELSE 0

RECURSIVE Gcd(_, _)
Gcd(x, y) == IF y = 0 THEN x ELSE Gcd(y, x % y)

\* the precision of the model's f32: |n| and d of every finite value are at most
\* Mantissa
Mantissa == 128 * 128

RECURSIVE Norm(_, _)

\* s * m/e for e > 0 too wide for the mantissa, rounded toward zero: numerator and
\* denominator are scaled down together by k, to zero when the value is too small
\* and to an infinity when it is too large
Scaled(s, m, e, k) == IF e \div k = 0 THEN <<s, 0>> ELSE Norm(s * (m \div k), e \div k)

\* s * m/e in lowest terms, e > 0: kept exactly when it fits the mantissa
Fit(s, m, e) ==
    IF m <= Mantissa /\ e <= Mantissa THEN <<s * m, e>>
    ELSE Scaled(s, m, e, ((IF m > e THEN m ELSE e) \div Mantissa) + 1)

\* s * m/e for e > 0, where g is the greatest common divisor of m and e
Lowest(s, m, e, g) == Fit(s, m \div g, e \div g)

\* the f32 of the quotient n/d, in canonical form
Norm(n, d) ==
    IF d = 0 THEN <<Sgn(n), 0>>
    ELSE Lowest(Sgn(n) * Sgn(d), Abs(n), Abs(d), Gcd(Abs(n), Abs(d)))

FInt(i) == <<i, 1>>
Zero == <<0, 1>>
One == <<1, 1>>
Inf == <<1, 0>>
NegInf == <<-1, 0>>
NaN == <<0, 0>>

IsNaN(x) == x = NaN
IsInfinite(x) == x[2] = 0 /\ x[1] # 0

\* a + b
FAdd(x, y) ==
    IF IsNaN(x) \/ IsNaN(y) THEN NaN
    ELSE IF IsInfinite(x) /\ IsInfinite(y) THEN (IF x = y THEN x ELSE NaN)
    ELSE IF IsInfinite(x) THEN x
    ELSE IF IsInfinite(y) THEN y
    ELSE Norm(x[1] * y[2] + y[1] * x[2], x[2] * y[2])

FNeg(x) == <<-x[1], x[2]>>

\* a - b
FSub(x, y) == FAdd(x, FNeg(y))

\* a * b  (0 * inf and NaN * anything are NaN)
FMul(x, y) == Norm(x[1] * y[1], x[2] * y[2])

\* a / b  (x/0 is +-inf for x # 0, 0/0 and inf/inf are NaN)
FDiv(x, y) == Norm(x[1] * y[2], x[2] * y[1])

\* a.abs()
FAbs(x) == <<Abs(x[1]), x[2]>>

\* a > 0.0  (false for NaN)
FGtZero(x) == x[1] > 0

\* a == 0.0  (false for NaN and the infinities)
FIsZero(x) == x[1] = 0 /\ x[2] # 0

\* a.powf(p) for a natural exponent p
RECURSIVE FPowf(_, _)
FPowf(x, p) == IF p = 0 THEN One ELSE FMul(x, FPowf(x, p - 1))

RECURSIVE Pow2(_)
Pow2(k) == IF k = 0 THEN 1 ELSE 2 * Pow2(k - 1)

\* f32::exp on the model's values: exact at NaN and the infinities; a finite
\* x maps to 2^floor(x), which like e^x is positive, monotone and 1 at x = 0;
\* beyond ExpMax the result overflows to +inf, below -ExpMax it underflows to
\* 0, as f32::exp does beyond about 88.7 and below about -103.
FExp(x) ==
    IF x[2] = 0 THEN (IF x = NegInf THEN Zero ELSE x)
    ELSE LET k == x[1] \div x[2]
         IN  IF k > ExpMax THEN Inf
             ELSE IF k < -ExpMax THEN Zero
             ELSE IF k >= 0 THEN <<Pow2(k), 1>>
             ELSE <<1, Pow2(-k)>>

\* ------------------------------------------------------------------------
\* Tensor and Result values
\* ------------------------------------------------------------------------
Tensor(data, shape) == [data |-> data, shape |-> shape]

\* Tensor::empty()
Tensor_empty == Tensor(<<>>, <<>>)

Ok(t) == [tag |-> "Ok", val |-> t, err |-> "None"]
Err(e) == [tag |-> "Err", val |-> Tensor_empty, err |-> e]
\* the call aborts the process instead of returning
Panic == [tag |-> "Panic", val |-> Tensor_empty, err |-> "None"]
\* no call has been made yet
NoResult == [tag |-> "NoResult", val |-> Tensor_empty, err |-> "None"]

IsOk(r) == r.tag = "Ok"

\* shape.iter().product::<usize>()
RECURSIVE product(_)
product(shape) == IF shape = <<>> THEN 1 ELSE Head(shape) * product(Tail(shape))

\* Tensor::new checking the data length before the rank
Tensor_new_data_first(data, shape) ==
    IF Len(data) # product(shape) THEN Err("InconsistentData")
    ELSE IF Len(shape) = 0 \/ Len(shape) > 2 THEN Err("InvalidRank")
    ELSE Ok(Tensor(data, shape))

\* Tensor::new
Tensor_new(data, shape) ==
    IF Len(shape) = 0 \/ Len(shape) > 2 THEN Err("InvalidRank")
    ELSE IF Len(data) # product(shape) THEN Err("InconsistentData")
    ELSE Ok(Tensor(data, shape))

\* Tensor::one
Tensor_one(shape) ==
    IF Len(shape) = 0 \/ Len(shape) > 2 THEN Err("InvalidRank")
    ELSE Ok(Tensor([i \in 1..product(shape) |-> One], shape))

\* Tensor::data handing out the elements last to first
Tensor_data_reversed(self) == [i \in 1..Len(self.data) |-> self.data[Len(self.data) + 1 - i]]

\* Tensor::data
Tensor_data(self) == self.data

\* Tensor::shape
Tensor_shape(self) == self.shape

\* Tensor::clone
Tensor_clone(t) == Tensor(t.data, t.shape)

\* the closure op(a, b) handed to _element_wise_op by add, sub, mul and div
binary_closure(op, x, y) ==
    CASE op = "add" -> FAdd(x, y)
      [] op = "sub" -> FSub(x, y)
      [] op = "mul" -> FMul(x, y)
      [] op = "div" -> FDiv(x, y)

\* the closure op(a) handed to _element_wise_op_single; captured is the power
\* of powf and the scalar of scale
\* the closures with a relu_prime that is 1 at 0.0 too
unary_closure_prime_from_zero(op, captured, x) ==
    CASE op = "abs" -> FAbs(x)
      [] op = "powf" -> FPowf(x, captured)
      [] op = "scale" -> FMul(x, captured)
      [] op = "relu" -> IF FGtZero(x) THEN x ELSE Zero
      [] op = "relu_prime" -> IF FGtZero(x) \/ FIsZero(x) THEN One ELSE Zero
      [] op = "exp" -> FExp(x)

unary_closure(op, captured, x) ==
    CASE op = "abs" -> FAbs(x)
      [] op = "powf" -> FPowf(x, captured)
      [] op = "scale" -> FMul(x, captured)
      [] op = "relu" -> IF FGtZero(x) THEN x ELSE Zero
      [] op = "relu_prime" -> IF FGtZero(x) THEN One ELSE Zero
      [] op = "exp" -> FExp(x)

Min(x, y) == IF x < y THEN x ELSE y

\* _element_wise_op comparing the element counts instead of the shapes
element_wise_op_by_len(self, other, op) ==
    IF Len(self.data) # Len(other.data) THEN Err("ShapeMismatch")
    ELSE Tensor_new([i \in 1..Len(self.data) |->
                        binary_closure(op, self.data[i], other.data[i])],
                    self.shape)

\* Tensor::_element_wise_op
element_wise_op(self, other, op) ==
    IF self.shape # other.shape THEN Err("ShapeMismatch")
    ELSE LET n == Min(Len(self.data), Len(other.data))
             data == [i \in 1..n |-> binary_closure(op, self.data[i], other.data[i])]
         IN  Tensor_new(data, self.shape)

\* Tensor::_element_wise_op_single
element_wise_op_single(self, op, captured) ==
    Tensor_new([i \in 1..Len(self.data) |-> unary_closure(op, captured, self.data[i])],
               self.shape)

add(self, other) == element_wise_op(self, other, "add")
sub(self, other) == element_wise_op(self, other, "sub")
mul(self, other) == element_wise_op(self, other, "mul")
div(self, other) == element_wise_op(self, other, "div")

abs(self) == element_wise_op_single(self, "abs", 0)
powf(self, power) == element_wise_op_single(self, "powf", power)
scale(self, scalar) == element_wise_op_single(self, "scale", scalar)
relu(self) == element_wise_op_single(self, "relu", 0)
\* Tensor::relu_prime returning the mask as a rank-1 tensor
relu_prime_flattening(self) ==
    Tensor_new([i \in 1..Len(self.data) |-> unary_closure("relu_prime", 0, self.data[i])],
               <<Len(self.data)>>)

relu_prime(self) == element_wise_op_single(self, "relu_prime", 0)
exp(self) == element_wise_op_single(self, "exp", 0)

\* Tensor::transpose exchanging the dimensions but copying the data in its order
transpose_keeping_order(self) ==
    IF Len(self.shape) # 1 /\ Len(self.shape) # 2 THEN Err("InvalidRank")
    ELSE IF Len(self.shape) = 1 THEN Tensor_new(self.data, self.shape)
    ELSE Tensor_new(self.data, <<self.shape[2], self.shape[1]>>)

\* Tensor::transpose turning a rank-1 tensor of n elements into a [1, n] row
transpose_rank1_as_row(self) ==
    IF Len(self.shape) # 1 /\ Len(self.shape) # 2 THEN Err("InvalidRank")
    ELSE IF Len(self.shape) = 1 THEN Tensor_new(self.data, <<1, self.shape[1]>>)
    ELSE LET rows == self.shape[1]
             cols == self.shape[2]
             transposed_data ==
                 [idx \in 1..Len(self.data) |->
                     LET col == (idx - 1) \div rows
                         row == (idx - 1) % rows
                     IN  self.data[row * cols + col + 1]]
         IN  Tensor_new(transposed_data, <<cols, rows>>)

\* Tensor::transpose
transpose(self) ==
    IF Len(self.shape) # 1 /\ Len(self.shape) # 2 THEN Err("InvalidRank")
    ELSE IF Len(self.shape) = 1 THEN Tensor_new(self.data, self.shape)
    ELSE LET rows == self.shape[1]
             cols == self.shape[2]
             \* transposed_data[col * rows + row] = self.data[row * cols + col]
             transposed_data ==
                 [idx \in 1..Len(self.data) |->
                     LET col == (idx - 1) \div rows
                         row == (idx - 1) % rows
                     IN  self.data[row * cols + col + 1]]
         IN  Tensor_new(transposed_data, <<cols, rows>>)

\* the (rows, cols) a left matmul operand is read as
left_dims(shape) == IF Len(shape) = 1 THEN <<1, shape[1]>> ELSE <<shape[1], shape[2]>>

\* the (rows, cols) a right matmul operand is read as
right_dims(shape) == IF Len(shape) = 1 THEN <<shape[1], 1>> ELSE <<shape[1], shape[2]>>

\* the matmul result shape with the vector cases exchanged
out_shape_swapped(self, other, a_rows, b_cols) ==
    IF Len(self.shape) = 1 /\ Len(other.shape) = 1 THEN <<1>>
    ELSE IF Len(self.shape) = 1 /\ Len(other.shape) = 2 THEN <<a_rows>>
    ELSE IF Len(self.shape) = 2 /\ Len(other.shape) = 1 THEN <<b_cols>>
    ELSE <<a_rows, b_cols>>

\* the shape of a matmul result
out_shape(self, other, a_rows, b_cols) ==
    IF Len(self.shape) = 1 /\ Len(other.shape) = 1 THEN <<1>>
    ELSE IF Len(self.shape) = 1 /\ Len(other.shape) = 2 THEN <<b_cols>>
    ELSE IF Len(self.shape) = 2 /\ Len(other.shape) = 1 THEN <<a_rows>>
    ELSE <<a_rows, b_cols>>

\* the innermost loop of matmul_naive: result_data[i * b_cols + j] after k = 0..a_cols-1
RECURSIVE naive_cell(_, _, _, _, _, _, _, _)
naive_cell(self, other, a_cols, b_cols, i, j, k, acc) ==
    IF k >= a_cols THEN acc
    ELSE naive_cell(self, other, a_cols, b_cols, i, j, k + 1,
             FAdd(acc, FMul(self.data[i * a_cols + k + 1], other.data[k * b_cols + j + 1])))

\* Tensor::matmul_naive
matmul_naive(self, other) ==
    IF Len(self.shape) \notin {1, 2} \/ Len(other.shape) \notin {1, 2} THEN Err("InvalidRank")
    ELSE LET a_rows == left_dims(self.shape)[1]
             a_cols == left_dims(self.shape)[2]
             b_rows == right_dims(other.shape)[1]
             b_cols == right_dims(other.shape)[2]
         IN  IF a_cols # b_rows THEN Err("ShapeMismatch")
             ELSE LET result_data ==
                          [idx \in 1..(a_rows * b_cols) |->
                              naive_cell(self, other, a_cols, b_cols,
                                         (idx - 1) \div b_cols, (idx - 1) % b_cols, 0, Zero)]
                  IN  Tensor_new(result_data, out_shape(self, other, a_rows, b_cols))

\* the k loop of matmul over one row of the left operand: a zero a[i][k] is
\* skipped, any other a[i][k] adds a[i][k] * b_row to out_row
RECURSIVE matmul_row(_, _, _, _, _)
matmul_row(a_row, other, b_cols, k, out_row) ==
    IF k >= Len(a_row) THEN out_row
    ELSE LET aik == a_row[k + 1]
         IN  IF FIsZero(aik) THEN matmul_row(a_row, other, b_cols, k + 1, out_row)
             ELSE LET b_row_start == k * b_cols
                      b_row == SubSeq(other.data, b_row_start + 1, b_row_start + b_cols)
                  IN  matmul_row(a_row, other, b_cols, k + 1,
                          [j \in 1..b_cols |-> FAdd(out_row[j], FMul(aik, b_row[j]))])

\* Tensor::matmul; chunks_exact(0) aborts the process
matmul(self, other) ==
    IF Len(self.shape) \notin {1, 2} \/ Len(other.shape) \notin {1, 2} THEN Err("InvalidRank")
    ELSE LET a_rows == left_dims(self.shape)[1]
             a_cols == left_dims(self.shape)[2]
             b_rows == right_dims(other.shape)[1]
             b_cols == right_dims(other.shape)[2]
         IN  IF a_cols # b_rows THEN Err("ShapeMismatch")
             ELSE IF a_cols = 0 THEN Panic
             ELSE LET chunks == Len(self.data) \div a_cols
                      out_row(i) ==
                          matmul_row(SubSeq(self.data, i * a_cols + 1, i * a_cols + a_cols),
                                     other, b_cols, 0, [j \in 1..b_cols |-> Zero])
                      data == [idx \in 1..(a_rows * b_cols) |->
                                  LET i == (idx - 1) \div b_cols
                                  IN  IF i < chunks THEN out_row(i)[((idx - 1) % b_cols) + 1]
                                      ELSE Zero]
                  IN  Ok(Tensor(data, out_shape(self, other, a_rows, b_cols)))

\* self.data.iter().sum()
RECURSIVE iter_sum(_)
iter_sum(data) == IF data = <<>> THEN Zero ELSE FAdd(iter_sum(SubSeq(data, 1, Len(data) - 1)), data[Len(data)])

\* Option<usize>
None == <<>>
Some(axis) == <<axis>>

\* Tensor::sum whose column sums leave out the first row
sum_from_second_row(self, axis) ==
    IF axis = None \/ (axis \in {Some(0), Some(1)} /\ Len(self.shape) < 2)
    THEN Tensor_new(<<iter_sum(self.data)>>, <<1>>)
    ELSE IF axis = Some(0)
    THEN LET rows == self.shape[1]
             cols == self.shape[2]
         IN  Tensor_new([c \in 1..cols |->
                            iter_sum([r \in 1..(rows - 1) |-> self.data[r * cols + c]])],
                        <<cols>>)
    ELSE IF axis = Some(1)
    THEN LET rows == self.shape[1]
             cols == self.shape[2]
         IN  Tensor_new([r \in 1..rows |->
                            iter_sum([c \in 1..cols |-> self.data[(r - 1) * cols + c]])],
                        <<rows>>)
    ELSE Err("InvalidRank")

\* Tensor::sum with the two axes exchanged
sum_axes_exchanged(self, axis) ==
    IF axis = None \/ (axis \in {Some(0), Some(1)} /\ Len(self.shape) < 2)
    THEN Tensor_new(<<iter_sum(self.data)>>, <<1>>)
    ELSE IF axis = Some(1)
    THEN LET rows == self.shape[1]
             cols == self.shape[2]
         IN  Tensor_new([c \in 1..cols |->
                            iter_sum([r \in 1..rows |-> self.data[(r - 1) * cols + c]])],
                        <<cols>>)
    ELSE IF axis = Some(0)
    THEN LET rows == self.shape[1]
             cols == self.shape[2]
         IN  Tensor_new([r \in 1..rows |->
                            iter_sum([c \in 1..cols |-> self.data[(r - 1) * cols + c]])],
                        <<rows>>)
    ELSE Err("InvalidRank")

\* Tensor::sum
sum(self, axis) ==
    IF axis = None \/ (axis \in {Some(0), Some(1)} /\ Len(self.shape) < 2)
    THEN Tensor_new(<<iter_sum(self.data)>>, <<1>>)
    ELSE IF axis = Some(0)
    THEN LET rows == self.shape[1]
             cols == self.shape[2]
         IN  Tensor_new([c \in 1..cols |->
                            iter_sum([r \in 1..rows |-> self.data[(r - 1) * cols + c]])],
                        <<cols>>)
    ELSE IF axis = Some(1)
    THEN LET rows == self.shape[1]
             cols == self.shape[2]
         IN  Tensor_new([r \in 1..rows |->
                            iter_sum([c \in 1..cols |-> self.data[(r - 1) * cols + c]])],
                        <<rows>>)
    ELSE Err("InvalidRank")

\* ------------------------------------------------------------------------
\* Layers
\* ------------------------------------------------------------------------
\* self.f(..)? on the Result r
try1(r, op, captured) == IF IsOk(r) THEN element_wise_op_single(r.val, op, captured) ELSE r

\* r1?.f(&r2?): the receiver is evaluated before the argument
try2(r1, r2, op) ==
    IF ~IsOk(r1) THEN r1
    ELSE IF ~IsOk(r2) THEN r2
    ELSE element_wise_op(r1.val, r2.val, op)

\* a layer and the Result of the call made on it
Call(layer, r) == [layer |-> layer, res |-> r]

\* the values an Rng yields from next_f32, one per generator state
RngTable == <<One, FInt(-1), Zero>>
next_f32(rng) == RngTable[(rng % Len(RngTable)) + 1]

\* Linear::new starting with a row of zeros as the cached input
Linear_new_caching_zeros(in_features, out_features, rng) ==
    LET weights == [i \in 1..(in_features * out_features) |-> next_f32(rng + i - 1)]
    IN  [kind |-> "Linear", t |-> "None",
         weight |-> Tensor_new(weights, <<in_features, out_features>>).val,
         input |-> Tensor([i \in 1..in_features |-> Zero], <<1, in_features>>)]

\* Linear::new
Linear_new(in_features, out_features, rng) ==
    LET weights == [i \in 1..(in_features * out_features) |-> next_f32(rng + i - 1)]
    IN  [kind |-> "Linear", t |-> "None",
         weight |-> Tensor_new(weights, <<in_features, out_features>>).val,
         input |-> Tensor_empty]

\* Activation::new
Activation_new(t) ==
    [kind |-> "Activation", t |-> t, weight |-> Tensor_empty, input |-> Tensor_empty]

\* Linear::forward caching the input only once the product has succeeded
Linear_forward_caching_on_success(self, input) ==
    LET copy == Tensor_new(input.data, input.shape)
        output == matmul(input, self.weight)
    IN  IF ~IsOk(copy) THEN Call(self, copy)
        ELSE IF ~IsOk(output) THEN Call(self, output)
        ELSE Call([self EXCEPT !.input = copy.val], output)

\* Linear::forward storing the copy of the input in self.weight
Linear_forward_caching_in_weight(self, input) ==
    LET copy == Tensor_new(input.data, input.shape)
    IN  IF ~IsOk(copy) THEN Call(self, copy)
        ELSE Call([self EXCEPT !.weight = copy.val], matmul(input, self.weight))

\* Linear::forward without the copy of the input into self.input
Linear_forward_uncached(self, input) ==
    LET copy == Tensor_new(input.data, input.shape)
    IN  IF ~IsOk(copy) THEN Call(self, copy)
        ELSE Call(self, matmul(input, self.weight))

\* Linear::forward
Linear_forward(self, input) ==
    LET copy == Tensor_new(input.data, input.shape)
    IN  IF ~IsOk(copy) THEN Call(self, copy)
        ELSE Call([self EXCEPT !.input = copy.val], matmul(input, self.weight))

\* Linear::backward returning the gradient it was given
Linear_backward_returning_output_error(self, output_error, learning_rate) ==
    LET weight_t == transpose(self.weight)
    IN  IF ~IsOk(weight_t) THEN Call(self, weight_t) ELSE
    LET input_error == matmul(output_error, weight_t.val)
    IN  IF ~IsOk(input_error) THEN Call(self, input_error) ELSE
    LET input_t == transpose(self.input)
    IN  IF ~IsOk(input_t) THEN Call(self, input_t) ELSE
    LET weights_grad == matmul(input_t.val, output_error)
    IN  IF ~IsOk(weights_grad) THEN Call(self, weights_grad) ELSE
    LET weight_step == scale(weights_grad.val, learning_rate)
    IN  IF ~IsOk(weight_step) THEN Call(self, weight_step) ELSE
    LET weight == sub(self.weight, weight_step.val)
    IN  IF ~IsOk(weight) THEN Call(self, weight)
        ELSE Call([self EXCEPT !.weight = weight.val], Ok(output_error))

\* Linear::backward taking the cached input out of the layer
Linear_backward_taking_input(self, output_error, learning_rate) ==
    LET taken == [self EXCEPT !.input = Tensor_empty]
        weight_t == transpose(self.weight)
    IN  IF ~IsOk(weight_t) THEN Call(taken, weight_t) ELSE
    LET input_error == matmul(output_error, weight_t.val)
    IN  IF ~IsOk(input_error) THEN Call(taken, input_error) ELSE
    LET input_t == transpose(self.input)
    IN  IF ~IsOk(input_t) THEN Call(taken, input_t) ELSE
    LET weights_grad == matmul(input_t.val, output_error)
    IN  IF ~IsOk(weights_grad) THEN Call(taken, weights_grad) ELSE
    LET weight_step == scale(weights_grad.val, learning_rate)
    IN  IF ~IsOk(weight_step) THEN Call(taken, weight_step) ELSE
    LET weight == sub(self.weight, weight_step.val)
    IN  IF ~IsOk(weight) THEN Call(taken, weight)
        ELSE Call([taken EXCEPT !.weight = weight.val], input_error)

\* Linear::backward assigning the step itself to self.weight
Linear_backward_assigning_step(self, output_error, learning_rate) ==
    LET weight_t == transpose(self.weight)
    IN  IF ~IsOk(weight_t) THEN Call(self, weight_t) ELSE
    LET input_error == matmul(output_error, weight_t.val)
    IN  IF ~IsOk(input_error) THEN Call(self, input_error) ELSE
    LET input_t == transpose(self.input)
    IN  IF ~IsOk(input_t) THEN Call(self, input_t) ELSE
    LET weights_grad == matmul(input_t.val, output_error)
    IN  IF ~IsOk(weights_grad) THEN Call(self, weights_grad) ELSE
    LET weight_step == scale(weights_grad.val, learning_rate)
    IN  IF ~IsOk(weight_step) THEN Call(self, weight_step)
        ELSE Call([self EXCEPT !.weight = weight_step.val], input_error)

\* Linear::backward
Linear_backward(self, output_error, learning_rate) ==
    LET weight_t == transpose(self.weight)
    IN  IF ~IsOk(weight_t) THEN Call(self, weight_t) ELSE
    LET input_error == matmul(output_error, weight_t.val)
    IN  IF ~IsOk(input_error) THEN Call(self, input_error) ELSE
    LET input_t == transpose(self.input)
    IN  IF ~IsOk(input_t) THEN Call(self, input_t) ELSE
    LET weights_grad == matmul(input_t.val, output_error)
    IN  IF ~IsOk(weights_grad) THEN Call(self, weights_grad) ELSE
    LET weight_step == scale(weights_grad.val, learning_rate)
    IN  IF ~IsOk(weight_step) THEN Call(self, weight_step) ELSE
    LET weight == sub(self.weight, weight_step.val)
    IN  IF ~IsOk(weight) THEN Call(self, weight)
        ELSE Call([self EXCEPT !.weight = weight.val], input_error)

\* 1 / (1 + exp(-x)) as Activation::forward and Activation::backward compute it
sigmoid_expr(x) ==
    LET neg_x == scale(x, FInt(-1))
    IN  IF ~IsOk(neg_x) THEN neg_x ELSE
    LET denominator == try2(Tensor_one(x.shape), exp(neg_x.val), "add")
    IN  IF ~IsOk(denominator) THEN denominator
        ELSE try2(Tensor_one(x.shape), denominator, "div")

\* (exp(x) - exp(-x)) / (exp(x) + exp(-x)) as Activation::forward and
\* Activation::backward compute it
tanh_expr(x) ==
    LET exp_x == exp(x)
    IN  IF ~IsOk(exp_x) THEN exp_x ELSE
    LET exp_neg_x == try1(scale(x, FInt(-1)), "exp", 0)
    IN  IF ~IsOk(exp_neg_x) THEN exp_neg_x
        ELSE try2(sub(exp_x.val, exp_neg_x.val), add(exp_x.val, exp_neg_x.val), "div")

\* Activation::forward
Activation_forward(self, input) ==
    LET copy == Tensor_new(input.data, input.shape)
    IN  IF ~IsOk(copy) THEN Call(self, copy)
        ELSE Call([self EXCEPT !.input = copy.val],
                  CASE self.t = "ReLU" -> relu(input)
                    [] self.t = "Sigmoid" -> sigmoid_expr(input)
                    [] self.t = "Tanh" -> tanh_expr(input))

\* Activation::backward taking the cached input out of the layer
Activation_backward_taking(self, output_error, learning_rate) ==
    Call([self EXCEPT !.input = Tensor_empty],
         IF self.t = "ReLU"
         THEN try2(Ok(output_error), relu_prime(self.input), "mul")
         ELSE IF self.t = "Sigmoid"
         THEN LET sa == sigmoid_expr(self.input)
              IN  try2(Ok(output_error),
                       try2(sa, try2(Tensor_one(self.input.shape), sa, "sub"), "mul"), "mul")
         ELSE LET tanh_x == tanh_expr(self.input)
              IN  try2(Ok(output_error),
                       try2(Tensor_one(self.input.shape), try2(tanh_x, tanh_x, "mul"), "sub"),
                       "mul"))

\* Activation::backward
Activation_backward(self, output_error, learning_rate) ==
    Call(self,
         CASE self.t = "ReLU" ->
                  LET mask == relu_prime(self.input)
                  IN  IF ~IsOk(mask) THEN mask ELSE mul(output_error, mask.val)
           [] self.t = "Sigmoid" ->
                  LET sa == sigmoid_expr(self.input)
                  IN  IF ~IsOk(sa) THEN sa ELSE
                  LET one == Tensor_one(sa.val.shape)
                  IN  IF ~IsOk(one) THEN one ELSE
                  LET sigmoid_prime == try2(sa, sub(one.val, sa.val), "mul")
                  IN  IF ~IsOk(sigmoid_prime) THEN sigmoid_prime
                      ELSE mul(output_error, sigmoid_prime.val)
           [] self.t = "Tanh" ->
                  LET tanh_x == tanh_expr(self.input)
                  IN  IF ~IsOk(tanh_x) THEN tanh_x ELSE
                  LET one == Tensor_one(tanh_x.val.shape)
                  IN  IF ~IsOk(one) THEN one ELSE
                  LET tanh_sq == mul(tanh_x.val, tanh_x.val)
                  IN  IF ~IsOk(tanh_sq) THEN tanh_sq ELSE
                  LET tanh_prime == sub(one.val, tanh_sq.val)
                  IN  IF ~IsOk(tanh_prime) THEN tanh_prime
                      ELSE mul(output_error, tanh_prime.val))

\* Layer::forward, dispatched on the implementing type
Layer_forward(self, input) ==
    IF self.kind = "Linear" THEN Linear_forward(self, input)
    ELSE Activation_forward(self, input)

\* Layer::backward, dispatched on the implementing type
Layer_backward(self, output_error, learning_rate) ==
    IF self.kind = "Linear" THEN Linear_backward(self, output_error, learning_rate)
    ELSE Activation_backward(self, output_error, learning_rate)

\* ------------------------------------------------------------------------
\* Loss gradients
\* ------------------------------------------------------------------------
\* loss::l1_loss comparing the element counts and subtracting element by element
l1_loss_by_count(predicted, actual) ==
    IF product(predicted.shape) # product(actual.shape) THEN Err("ShapeMismatch")
    ELSE LET n == FInt(product(predicted.shape))
             diff == [i \in 1..Len(predicted.data) |->
                         FAbs(FSub(predicted.data[i], actual.data[i]))]
         IN  Tensor_new(<<FMul(iter_sum(diff), FDiv(One, n))>>, <<1>>)

\* loss::l1_loss
l1_loss(predicted, actual) ==
    IF predicted.shape # actual.shape THEN Err("ShapeMismatch")
    ELSE LET n == FInt(product(predicted.shape))
             diff == try1(sub(predicted, actual), "abs", 0)
         IN  IF ~IsOk(diff) THEN diff
             ELSE try1(sum(diff.val, None), "scale", FDiv(One, n))

\* loss::mse_loss adding the operands where the code subtracts them
mse_loss_adding(predicted, actual) ==
    IF predicted.shape # actual.shape THEN Err("ShapeMismatch")
    ELSE LET n == FInt(product(predicted.shape))
             squares == try1(add(predicted, actual), "powf", 2)
         IN  IF ~IsOk(squares) THEN squares
             ELSE try1(sum(squares.val, None), "scale", FDiv(One, n))

\* loss::mse_loss
mse_loss(predicted, actual) ==
    IF predicted.shape # actual.shape THEN Err("ShapeMismatch")
    ELSE LET n == FInt(product(predicted.shape))
             squares == try1(sub(predicted, actual), "powf", 2)
         IN  IF ~IsOk(squares) THEN squares
             ELSE try1(sum(squares.val, None), "scale", FDiv(One, n))

\* loss::mse_loss_gradient dividing by the number of elements
mse_loss_gradient_per_element(predicted, actual) ==
    LET diff == sub(predicted, actual)
    IN  IF ~IsOk(diff) THEN diff
        ELSE LET n == FInt(product(predicted.shape))
             IN  scale(diff.val, FDiv(FInt(2), n))

\* loss::mse_loss_gradient
mse_loss_gradient(predicted, actual) ==
    LET diff == sub(predicted, actual)
    IN  IF ~IsOk(diff) THEN diff
        ELSE LET n == FInt(predicted.shape[1])
             IN  scale(diff.val, FDiv(FInt(2), n))

\* loss::bce_sigmoid_delta
bce_sigmoid_delta(predicted, actual) ==
    IF predicted.shape # actual.shape THEN Err("ShapeMismatch")
    ELSE LET n == FInt(product(predicted.shape))
             diff == sub(predicted, actual)
         IN  IF ~IsOk(diff) THEN diff ELSE scale(diff.val, FDiv(One, n))

\* a call through the LossGradFn function pointer
call_loss_grad_fn(f, predicted, actual) ==
    CASE f = "mse_loss_gradient" -> mse_loss_gradient(predicted, actual)
      [] f = "bce_sigmoid_delta" -> bce_sigmoid_delta(predicted, actual)

\* ------------------------------------------------------------------------
\* Network and NetworkBuilder
\* ------------------------------------------------------------------------
\* Option<LossGradFn>::None
NoLossGrad == "None"

\* NetworkBuilder::new
NetworkBuilder_new == [layers |-> <<>>, loss_grad |-> NoLossGrad]

\* NetworkBuilder::add_layer
NetworkBuilder_add_layer(self, l) == [self EXCEPT !.layers = Append(self.layers, l)]

\* NetworkBuilder::loss_gradient
NetworkBuilder_loss_gradient(self, f) == [self EXCEPT !.loss_grad = f]

\* the value of net where no Network exists
NoNetwork == [layers |-> <<>>, loss_grad_fn |-> NoLossGrad]

\* build() that falls back to a default loss gradient instead of failing
NetworkBuilder_build_defaulting(self) ==
    [ok |-> TRUE,
     net |-> [layers |-> self.layers,
              loss_grad_fn |-> IF self.loss_grad = NoLossGrad THEN "mse_loss_gradient"
                               ELSE self.loss_grad]]

\* NetworkBuilder::build
NetworkBuilder_build(self) ==
    IF self.loss_grad = NoLossGrad THEN [ok |-> FALSE, net |-> NoNetwork]
    ELSE [ok |-> TRUE, net |-> [layers |-> self.layers, loss_grad_fn |-> self.loss_grad]]

\* the layers visited in insertion order
forward_order_reversed(n, k) == n - k + 1

\* for layer in &mut self.layers: the layer visited in iteration k = 1..n
forward_order(n, k) == k

\* the layers visited in insertion order by the backward pass too
backward_order_forward(n, k) == k

\* for layer in self.layers.iter_mut().rev(): the layer visited in iteration k
backward_order(n, k) == n - k + 1

\* the ? operator that lets an Err through as if it were Ok
returns_early_never(r) == r.tag = "Panic"

\* the ? operator: the Result makes the enclosing function return early
returns_early(r) == ~IsOk(r)

\* where the program is once a call made the enclosing function return early:
\* back in the caller, or nowhere when the call aborted the process
after_early_return(r) == IF r.tag = "Panic" THEN "aborted" ELSE "returned"

\* Ok(()) of Network::fit
OkUnit == Ok(Tensor_empty)

\* ------------------------------------------------------------------------
\* State
\* ------------------------------------------------------------------------
VARIABLES
    op,     \* the operation of the call under test, "none" before it is made
    a,      \* the tensor the call is made on (self)
    b,      \* the second operand (other); Tensor_empty for a one-operand call
    arg,    \* the scalar argument of the call (power, scalar, axis; data and shape)
    res,    \* the Result the call returned
    layer,  \* the Linear or Activation layer of the layer calls
    prev,   \* that layer as it was before the last call made on it
    lastFwd,    \* the argument of the most recent forward that returned Ok
    lastInput,  \* the argument of the most recent forward, whatever it returned
    calls   \* the number of calls made on the layer

layerVars == <<layer, prev, lastFwd, lastInput, calls>>

VARIABLES
    rngPos,     \* the state of the caller's random generator
    builder,    \* the NetworkBuilder
    history,    \* the calls made on the builder, until the caller is done with it
    net,        \* the Network that build() returned
    pc,         \* where the program is: building, built, ready, inside fit or
                \* forward, returned, aborted
    entry,      \* the Network method the caller invoked: "fit" or "forward"
    x_train,    \* the arguments of fit
    y_train,
    epochs,
    learning_rate,
    epoch,      \* the loop variable of fit
    input,      \* the argument of Network::forward
    iter,       \* the iteration of the loop over the layers, from 1
    current,    \* current_output of Network::forward, output and gradient of fit
    log,        \* the calls made on the layers and the loss gradient so far
    ret         \* what build, fit or forward returned

callVars == <<op, a, b, arg, res>>
fitArgs == <<x_train, y_train, epochs, learning_rate>>
netVars == <<rngPos, builder, history, net, pc, entry, fitArgs, epoch, input, iter, current,
             log, ret>>

\* what the Tensor calls leave alone
otherT == <<layerVars, netVars>>

vars == <<callVars, layerVars, netVars>>

\* the value of layer and prev where no layer exists
NoLayer == [kind |-> "None", t |-> "None", weight |-> Tensor_empty, input |-> Tensor_empty]

\* ------------------------------------------------------------------------
\* Tensor operations on operands from the public constructors
\* ------------------------------------------------------------------------
\* f32::MAX, the largest finite value: adding 1 to it leaves the finite range
f32_MAX == FInt(Mantissa)

\* the f32 values of the operands of two-operand calls
BinVals == {Zero, One, Inf}
\* the f32 values of the operands of one-operand calls
UnVals == {FInt(-1), Zero, One, FInt(2), Inf, f32_MAX, FNeg(f32_MAX)}

Dims == 0..MaxDim
Shapes == {s \in {<<n>> : n \in Dims} \cup {<<r, c>> : r \in Dims, c \in Dims} :
              product(s) <= MaxElems}

\* every tensor Tensor::new accepts with a shape of Shapes and data over V,
\* and the sentinel of Tensor::empty
Tensors(V) ==
    {Tensor_empty} \cup
    UNION {{Tensor_new(d, s).val : d \in [1..product(s) -> V]} : s \in Shapes}

NoArg == <<>>

\* the network variables where no network exists
NetIdle ==
    /\ rngPos = 0
    /\ builder = NetworkBuilder_new
    /\ history = <<>>
    /\ net = NoNetwork
    /\ pc = "none"
    /\ entry = "none"
    /\ x_train = Tensor_empty
    /\ y_train = Tensor_empty
    /\ epochs = 0
    /\ learning_rate = Zero
    /\ epoch = 0
    /\ input = Tensor_empty
    /\ iter = 0
    /\ current = Tensor_empty
    /\ log = <<>>
    /\ ret = NoResult

\* the layer variables where no single layer is under test
LayerIdle ==
    /\ layer = NoLayer
    /\ prev = NoLayer
    /\ lastFwd = Tensor_empty
    /\ lastInput = Tensor_empty
    /\ calls = 0

\* the call variables where no single call is under test
CallIdle ==
    /\ op = "none"
    /\ a = Tensor_empty
    /\ b = Tensor_empty
    /\ arg = NoArg
    /\ res = NoResult

TensorInit ==
    /\ op = "none"
    /\ \/ a \in Tensors(BinVals) /\ b \in Tensors(BinVals)
       \/ a \in Tensors(UnVals) /\ b = Tensor_empty
    /\ arg = NoArg
    /\ res = NoResult
    /\ LayerIdle
    /\ NetIdle

\* the calls self.f(other)
Add ==
    /\ op = "none"
    /\ op' = "add"
    /\ res' = add(a, b)
    /\ UNCHANGED <<a, b, arg>>
    /\ UNCHANGED otherT

Sub ==
    /\ op = "none"
    /\ op' = "sub"
    /\ res' = sub(a, b)
    /\ UNCHANGED <<a, b, arg>>
    /\ UNCHANGED otherT

Mul ==
    /\ op = "none"
    /\ op' = "mul"
    /\ res' = mul(a, b)
    /\ UNCHANGED <<a, b, arg>>
    /\ UNCHANGED otherT

Div ==
    /\ op = "none"
    /\ op' = "div"
    /\ res' = div(a, b)
    /\ UNCHANGED <<a, b, arg>>
    /\ UNCHANGED otherT

Matmul ==
    /\ op = "none"
    /\ op' = "matmul"
    /\ res' = matmul(a, b)
    /\ UNCHANGED <<a, b, arg>>
    /\ UNCHANGED otherT

MatmulNaive ==
    /\ op = "none"
    /\ op' = "matmul_naive"
    /\ res' = matmul_naive(a, b)
    /\ UNCHANGED <<a, b, arg>>
    /\ UNCHANGED otherT

\* the calls self.f()
AbsOp ==
    /\ op = "none"
    /\ b = Tensor_empty
    /\ op' = "abs"
    /\ res' = abs(a)
    /\ UNCHANGED <<a, b, arg>>
    /\ UNCHANGED otherT

Relu ==
    /\ op = "none"
    /\ b = Tensor_empty
    /\ op' = "relu"
    /\ res' = relu(a)
    /\ UNCHANGED <<a, b, arg>>
    /\ UNCHANGED otherT

ReluPrime ==
    /\ op = "none"
    /\ b = Tensor_empty
    /\ op' = "relu_prime"
    /\ res' = relu_prime(a)
    /\ UNCHANGED <<a, b, arg>>
    /\ UNCHANGED otherT

Transpose ==
    /\ op = "none"
    /\ b = Tensor_empty
    /\ op' = "transpose"
    /\ res' = transpose(a)
    /\ UNCHANGED <<a, b, arg>>
    /\ UNCHANGED otherT

Clone ==
    /\ op = "none"
    /\ b = Tensor_empty
    /\ op' = "clone"
    /\ res' = Ok(Tensor_clone(a))
    /\ UNCHANGED <<a, b, arg>>
    /\ UNCHANGED otherT

Exp ==
    /\ op = "none"
    /\ b = Tensor_empty
    /\ op' = "exp"
    /\ res' = exp(a)
    /\ UNCHANGED <<a, b, arg>>
    /\ UNCHANGED otherT

\* the calls self.f(x) with a scalar x
Powf ==
    /\ op = "none"
    /\ b = Tensor_empty
    /\ \E power \in 0..2 :
           /\ arg' = power
           /\ res' = powf(a, power)
    /\ op' = "powf"
    /\ UNCHANGED <<a, b>>
    /\ UNCHANGED otherT

Scale ==
    /\ op = "none"
    /\ b = Tensor_empty
    /\ \E scalar \in UnVals :
           /\ arg' = scalar
           /\ res' = scale(a, scalar)
    /\ op' = "scale"
    /\ UNCHANGED <<a, b>>
    /\ UNCHANGED otherT

Sum ==
    /\ op = "none"
    /\ b = Tensor_empty
    /\ \E axis \in {None, Some(0), Some(1), Some(2)} :
           /\ arg' = axis
           /\ res' = sum(a, axis)
    /\ op' = "sum"
    /\ UNCHANGED <<a, b>>
    /\ UNCHANGED otherT

\* the data and shape arguments handed to the constructors
RawShapes == UNION {[1..n -> Dims] : n \in 0..3}
RawData == UNION {[1..n -> BinVals] : n \in 0..MaxElems}

\* the calls of the constructors, which have no tensor operand
New ==
    /\ op = "none"
    /\ a = Tensor_empty
    /\ b = Tensor_empty
    /\ \E data \in RawData, shape \in RawShapes :
           /\ arg' = <<data, shape>>
           /\ res' = Tensor_new(data, shape)
    /\ op' = "new"
    /\ UNCHANGED <<a, b>>
    /\ UNCHANGED otherT

OneOp ==
    /\ op = "none"
    /\ a = Tensor_empty
    /\ b = Tensor_empty
    /\ \E shape \in RawShapes :
           /\ arg' = <<shape>>
           /\ res' = Tensor_one(shape)
    /\ op' = "one"
    /\ UNCHANGED <<a, b>>
    /\ UNCHANGED otherT

Empty ==
    /\ op = "none"
    /\ a = Tensor_empty
    /\ b = Tensor_empty
    /\ op' = "empty"
    /\ res' = Ok(Tensor_empty)
    /\ UNCHANGED <<a, b, arg>>
    /\ UNCHANGED otherT

\* the calls f(&predicted, &actual) of the loss functions, with a as predicted
\* and b as actual
L1Loss ==
    /\ op = "none"
    /\ op' = "l1_loss"
    /\ res' = l1_loss(a, b)
    /\ UNCHANGED <<a, b, arg>>
    /\ UNCHANGED otherT

MseLoss ==
    /\ op = "none"
    /\ op' = "mse_loss"
    /\ res' = mse_loss(a, b)
    /\ UNCHANGED <<a, b, arg>>
    /\ UNCHANGED otherT

MseLossGradient ==
    /\ op = "none"
    /\ op' = "mse_loss_gradient"
    /\ res' = mse_loss_gradient(a, b)
    /\ UNCHANGED <<a, b, arg>>
    /\ UNCHANGED otherT

BceSigmoidDelta ==
    /\ op = "none"
    /\ op' = "bce_sigmoid_delta"
    /\ res' = bce_sigmoid_delta(a, b)
    /\ UNCHANGED <<a, b, arg>>
    /\ UNCHANGED otherT

TensorNext ==
    \/ Add \/ Sub \/ Mul \/ Div
    \/ Matmul \/ MatmulNaive
    \/ AbsOp \/ Relu \/ ReluPrime \/ Exp \/ Transpose \/ Clone
    \/ Powf \/ Scale \/ Sum
    \/ New \/ OneOp \/ Empty
    \/ L1Loss \/ MseLoss \/ MseLossGradient \/ BceSigmoidDelta

SpecTensor == TensorInit /\ [][TensorNext]_vars

\* ------------------------------------------------------------------------
\* Calls on one layer
\* ------------------------------------------------------------------------
\* element values of the tensors handed to a layer
Patterns == << <<One, FInt(2), FInt(-1), Zero>>, <<Zero, FInt(-1), FInt(2), One>>,
              <<Zero, FInt(-1), One, Inf>>, <<Inf, FInt(2), Zero, FInt(-1)>> >>
pattern_data(p, n) == [i \in 1..n |-> Patterns[p][((i - 1) % 4) + 1]]

LayerDims == 0..MaxFeat
LayerShapes ==
    {<<n>> : n \in LayerDims} \cup {<<r, c>> : r \in 0..MaxBatch, c \in LayerDims}

\* the tensors handed to forward: of every shape and rank, and the sentinel
Inputs ==
    {Tensor_empty} \cup {Tensor(pattern_data(1, product(s)), s) : s \in LayerShapes}

\* the tensors handed to backward: of every shape and rank, and the sentinel
OutputErrors ==
    {Tensor_empty} \cup {Tensor(pattern_data(2, product(s)), s) : s \in LayerShapes}

\* the tensors handed to forward on an Activation layer: those and rank-1
\* tensors with a zero and a negative element
ActivationInputs ==
    Inputs \cup {Tensor(pattern_data(3, n), <<n>>) : n \in LayerDims}

\* the tensors handed to backward on an Activation layer: those and rank-1
\* tensors with an infinite element
ActivationErrors ==
    OutputErrors \cup {Tensor(pattern_data(4, n), <<n>>) : n \in LayerDims}

LearningRates == {FInt(2)}

\* the learning rates handed to backward on an Activation layer
ActivationRates == {Zero, FInt(2)}

ActivationTypes == {"ReLU", "Sigmoid", "Tanh"}

\* the layers as their constructors return them
FreshLayers ==
    {Linear_new(i, o, rng) : i \in LayerDims, o \in LayerDims, rng \in 0..MaxSeed}
    \cup {Activation_new(t) : t \in ActivationTypes}

LayerInit ==
    /\ op = "none"
    /\ a = Tensor_empty
    /\ b = Tensor_empty
    /\ arg = NoArg
    /\ res = NoResult
    /\ layer \in FreshLayers
    /\ prev = layer
    /\ lastFwd = Tensor_empty
    /\ lastInput = Tensor_empty
    /\ calls = 0
    /\ NetIdle

\* a call returns to its caller unless it aborted the process
Running == res.tag # "Panic" /\ calls < MaxCalls

LinearForward ==
    /\ Running
    /\ layer.kind = "Linear"
    /\ \E x \in Inputs :
           \E c \in {Linear_forward(layer, x)} :
               /\ a' = x
               /\ layer' = c.layer
               /\ res' = c.res
               /\ lastFwd' = IF IsOk(c.res) THEN x ELSE lastFwd
               /\ lastInput' = x
    /\ op' = "forward"
    /\ arg' = NoArg
    /\ prev' = layer
    /\ calls' = calls + 1
    /\ UNCHANGED <<b, netVars>>

LinearBackward ==
    /\ Running
    /\ layer.kind = "Linear"
    /\ \E output_error \in OutputErrors, lr \in LearningRates :
           \E c \in {Linear_backward(layer, output_error, lr)} :
               /\ a' = output_error
               /\ arg' = lr
               /\ layer' = c.layer
               /\ res' = c.res
    /\ op' = "backward"
    /\ prev' = layer
    /\ calls' = calls + 1
    /\ UNCHANGED <<b, lastFwd, lastInput, netVars>>

ActivationForward ==
    /\ Running
    /\ layer.kind = "Activation"
    /\ \E x \in ActivationInputs :
           \E c \in {Activation_forward(layer, x)} :
               /\ a' = x
               /\ layer' = c.layer
               /\ res' = c.res
               /\ lastFwd' = IF IsOk(c.res) THEN x ELSE lastFwd
               /\ lastInput' = x
    /\ op' = "forward"
    /\ arg' = NoArg
    /\ prev' = layer
    /\ calls' = calls + 1
    /\ UNCHANGED <<b, netVars>>

ActivationBackward ==
    /\ Running
    /\ layer.kind = "Activation"
    /\ \E output_error \in ActivationErrors, lr \in ActivationRates :
           \E c \in {Activation_backward(layer, output_error, lr)} :
               /\ a' = output_error
               /\ arg' = lr
               /\ layer' = c.layer
               /\ res' = c.res
    /\ op' = "backward"
    /\ prev' = layer
    /\ calls' = calls + 1
    /\ UNCHANGED <<b, lastFwd, lastInput, netVars>>

LayerNext == LinearForward \/ LinearBackward \/ ActivationForward \/ ActivationBackward

SpecLayer == LayerInit /\ [][LayerNext]_vars

\* ------------------------------------------------------------------------
\* The network: a builder is filled and built, then fit or forward is called once
\* ------------------------------------------------------------------------
\* in_features and out_features of the Linear layers a network is built from
LinearSizes == {<<1, 1>>, <<1, 2>>, <<2, 1>>}

NetActivations == {"ReLU", "Sigmoid"}

LossGradFns == {"mse_loss_gradient", "bce_sigmoid_delta"}

NetShapes == {<<1>>, <<0, 1>>, <<MaxBatch, 1>>, <<MaxBatch, 2>>}

\* the tensors handed to fit as x_train and to forward as input
NetInputs == {Tensor(pattern_data(1, product(s)), s) : s \in NetShapes} \cup {Tensor_empty}

\* the tensors handed to fit as y_train
NetTargets == {Tensor(pattern_data(2, product(s)), s) : s \in NetShapes}

\* one call made on a layer or on the loss gradient function, as the log keeps it
Logged(fn, idx, x, y, r) == [fn |-> fn, idx |-> idx, arg |-> x, arg2 |-> y, res |-> r]

\* the number of loss_gradient calls in a builder history
RECURSIVE LossCalls(_)
LossCalls(h) ==
    IF h = <<>> THEN 0
    ELSE (IF h[1][1] = "loss_gradient" THEN 1 ELSE 0) + LossCalls(Tail(h))

NetInit ==
    /\ CallIdle
    /\ LayerIdle
    /\ rngPos \in 0..MaxSeed
    /\ builder = NetworkBuilder_new
    /\ history = <<>>
    /\ net = NoNetwork
    /\ pc = "building"
    /\ entry = "none"
    /\ x_train = Tensor_empty
    /\ y_train = Tensor_empty
    /\ epochs = 0
    /\ learning_rate = Zero
    /\ epoch = 0
    /\ input = Tensor_empty
    /\ iter = 0
    /\ current = Tensor_empty
    /\ log = <<>>
    /\ ret = NoResult

\* builder.add_layer(Box::new(Linear::new(i, o, &mut rng)))
AddLinear ==
    /\ pc = "building"
    /\ Len(builder.layers) < MaxLayers
    /\ \E size \in LinearSizes :
           LET l == Linear_new(size[1], size[2], rngPos)
           IN  /\ builder' = NetworkBuilder_add_layer(builder, l)
               /\ history' = Append(history, <<"add_layer", l>>)
               /\ rngPos' = (rngPos + size[1] * size[2]) % Len(RngTable)
    /\ UNCHANGED <<callVars, layerVars, net, pc, entry, fitArgs, epoch, input, iter,
                   current, log, ret>>

\* builder.add_layer(Box::new(Activation::new(t)))
AddActivation ==
    /\ pc = "building"
    /\ Len(builder.layers) < MaxLayers
    /\ \E t \in NetActivations :
           LET l == Activation_new(t)
           IN  /\ builder' = NetworkBuilder_add_layer(builder, l)
               /\ history' = Append(history, <<"add_layer", l>>)
    /\ UNCHANGED <<callVars, layerVars, rngPos, net, pc, entry, fitArgs, epoch, input,
                   iter, current, log, ret>>

\* builder.loss_gradient(f)
LossGradient ==
    /\ pc = "building"
    /\ LossCalls(history) < MaxLossCalls
    /\ \E f \in LossGradFns :
           /\ builder' = NetworkBuilder_loss_gradient(builder, f)
           /\ history' = Append(history, <<"loss_gradient", f>>)
    /\ UNCHANGED <<callVars, layerVars, rngPos, net, pc, entry, fitArgs, epoch, input,
                   iter, current, log, ret>>

\* builder.build()
Build ==
    /\ pc = "building"
    /\ LET r == NetworkBuilder_build(builder)
       IN  /\ net' = r.net
           /\ pc' = IF r.ok THEN "built" ELSE "build_failed"
           /\ ret' = IF r.ok THEN OkUnit ELSE Err("Loss gradient function is required")
    /\ UNCHANGED <<callVars, layerVars, rngPos, builder, history, entry, fitArgs, epoch,
                   input, iter, current, log>>

\* let mut nn = builder.build()?: the caller binds the Network build() returned and
\* is done with the builder
BindNetwork ==
    /\ pc = "built"
    /\ pc' = "ready"
    /\ history' = <<>>
    /\ UNCHANGED <<callVars, layerVars, rngPos, builder, net, entry, fitArgs, epoch, input,
                   iter, current, log, ret>>

\* nn.forward(x): the entry of Network::forward, up to its loop
ForwardCall ==
    /\ pc = "ready"
    /\ \E x \in NetInputs :
           /\ input' = x
           /\ current' = x
           /\ IF net.layers = <<>>
              THEN pc' = "returned" /\ ret' = Ok(x)
              ELSE pc' = "forward" /\ ret' = NoResult
    /\ entry' = "forward"
    /\ iter' = 1
    /\ UNCHANGED <<callVars, layerVars, rngPos, builder, history, net, fitArgs, epoch, log>>

\* one iteration of the loop of Network::forward, called directly or by fit
ForwardStep ==
    /\ pc \in {"forward", "fit_forward"}
    /\ \E n \in {Len(net.layers)} :
       \E i \in {forward_order(n, iter)} :
       \E c \in {Layer_forward(net.layers[i], current)} :
           /\ net' = [net EXCEPT !.layers[i] = c.layer]
           /\ log' = Append(log, Logged("forward", i, current, NoArg, c.res))
           /\ IF returns_early(c.res)
              THEN /\ pc' = after_early_return(c.res)
                   /\ ret' = IF c.res.tag = "Panic" THEN NoResult ELSE c.res
                   /\ UNCHANGED <<current, iter>>
              ELSE /\ current' = c.res.val
                   /\ iter' = IF iter = n THEN 1 ELSE iter + 1
                   /\ pc' = IF iter < n THEN pc
                            ELSE IF pc = "fit_forward" THEN "fit_loss" ELSE "returned"
                   /\ ret' = IF iter = n /\ pc = "forward" THEN Ok(c.res.val) ELSE ret
    /\ UNCHANGED <<callVars, layerVars, rngPos, builder, history, entry, fitArgs, epoch,
                   input>>

\* nn.fit(x_train, y_train, epochs, learning_rate)
FitCall ==
    /\ pc = "ready"
    /\ \E x \in NetInputs, y \in NetTargets, e \in 0..MaxEpochs, lr \in LearningRates :
           /\ x_train' = x
           /\ y_train' = y
           /\ epochs' = e
           /\ learning_rate' = lr
    /\ entry' = "fit"
    /\ pc' = "fit_epoch"
    /\ epoch' = 0
    /\ UNCHANGED <<callVars, layerVars, rngPos, builder, history, net, input, iter, current,
                   log, ret>>

\* the head of an epoch: the copy of x_train, and the entry of self.forward(input)
FitEpoch ==
    /\ pc = "fit_epoch"
    /\ epoch < epochs
    /\ \E copy \in {Tensor_new(x_train.data, x_train.shape)} :
           IF returns_early(copy)
           THEN /\ pc' = "returned"
                /\ ret' = copy
                /\ UNCHANGED <<input, current, iter>>
           ELSE /\ input' = copy.val
                /\ current' = copy.val
                /\ iter' = 1
                /\ pc' = IF net.layers = <<>> THEN "fit_loss" ELSE "fit_forward"
                /\ ret' = ret
    /\ UNCHANGED <<callVars, layerVars, rngPos, builder, history, net, entry, fitArgs,
                   epoch, log>>

\* (self.loss_grad_fn)(&output, y_train)
FitLossGradient ==
    /\ pc = "fit_loss"
    /\ \E r \in {call_loss_grad_fn(net.loss_grad_fn, current, y_train)} :
           /\ log' = Append(log, Logged("loss_grad_fn", 0, current, y_train, r))
           /\ IF returns_early(r)
              THEN /\ pc' = after_early_return(r)
                   /\ ret' = IF r.tag = "Panic" THEN NoResult ELSE r
                   /\ UNCHANGED <<current, epoch>>
              ELSE /\ current' = r.val
                   /\ pc' = IF net.layers = <<>> THEN "fit_epoch" ELSE "fit_backward"
                   /\ epoch' = IF net.layers = <<>> THEN epoch + 1 ELSE epoch
                   /\ ret' = ret
    /\ iter' = 1
    /\ UNCHANGED <<callVars, layerVars, rngPos, builder, history, net, entry, fitArgs,
                   input>>

\* one iteration of the backward loop of fit
FitBackwardStep ==
    /\ pc = "fit_backward"
    /\ \E n \in {Len(net.layers)} :
       \E i \in {backward_order(n, iter)} :
       \E c \in {Layer_backward(net.layers[i], current, learning_rate)} :
           /\ net' = [net EXCEPT !.layers[i] = c.layer]
           /\ log' = Append(log, Logged("backward", i, current, learning_rate, c.res))
           /\ IF returns_early(c.res)
              THEN /\ pc' = after_early_return(c.res)
                   /\ ret' = IF c.res.tag = "Panic" THEN NoResult ELSE c.res
                   /\ UNCHANGED <<current, iter, epoch>>
              ELSE /\ current' = c.res.val
                   /\ iter' = IF iter = n THEN 1 ELSE iter + 1
                   /\ pc' = IF iter = n THEN "fit_epoch" ELSE pc
                   /\ epoch' = IF iter = n THEN epoch + 1 ELSE epoch
                   /\ ret' = ret
    /\ UNCHANGED <<callVars, layerVars, rngPos, builder, history, entry, fitArgs, input>>

\* the loop of fit is over: Ok(())
FitReturn ==
    /\ pc = "fit_epoch"
    /\ epoch = epochs
    /\ pc' = "returned"
    /\ ret' = OkUnit
    /\ UNCHANGED <<callVars, layerVars, rngPos, builder, history, net, entry, fitArgs,
                   epoch, input, iter, current, log>>

NetNext ==
    \/ AddLinear \/ AddActivation \/ LossGradient \/ Build \/ BindNetwork
    \/ ForwardCall \/ ForwardStep
    \/ FitCall \/ FitEpoch \/ FitLossGradient \/ FitBackwardStep \/ FitReturn

SpecNetwork == NetInit /\ [][NetNext]_vars

\* ------------------------------------------------------------------------
\* Properties of the tensor operations
\* ------------------------------------------------------------------------
\* a tensor of rank 1 or 2 whose data fills its shape
ValidTensor(t) == Len(t.shape) \in {1, 2} /\ Len(t.data) = product(t.shape)

\* C8 (as claimed): matmul returns the outcome of matmul_naive for every pair
\* of operands from the public constructors, zero entries in the left
\* operand and zero-sized dimensions included.
C8_MatmulEqualsNaive == op = "matmul" => res = matmul_naive(a, b)

ElemOps == {"add", "sub", "mul", "div"}

\* the scalar function of an element-wise operation
ElemFn(name, x, y) ==
    CASE name = "add" -> FAdd(x, y)
      [] name = "sub" -> FSub(x, y)
      [] name = "mul" -> FMul(x, y)
      [] name = "div" -> FDiv(x, y)

\* the call succeeded with a.shape and op(a[i], b[i]) at every position i
ElemWiseResult ==
    /\ IsOk(res)
    /\ res.val.shape = a.shape
    /\ Len(res.val.data) = Len(a.data)
    /\ \A i \in 1..Len(a.data) : res.val.data[i] = ElemFn(op, a.data[i], b.data[i])

\* C9 (as claimed): add, sub, mul and div fail with ShapeMismatch when the
\* shapes differ and otherwise succeed with the element-wise result, for
\* every pair of tensors obtainable from the public constructors.
C9_ElementWiseAllOperands ==
    op \in ElemOps =>
        IF a.shape # b.shape THEN res = Err("ShapeMismatch") ELSE ElemWiseResult

\* C9 (amended): add, sub, mul and div fail with ShapeMismatch when the shapes
\* differ, succeed with the element-wise result when the shapes are equal and
\* of rank 1 or 2, and fail with InvalidRank when both operands are the
\* empty() sentinel.
C9_ElementWise ==
    op \in ElemOps =>
        IF a.shape # b.shape THEN res = Err("ShapeMismatch")
        ELSE IF Len(a.shape) \in {1, 2} THEN ElemWiseResult
        ELSE res = Err("InvalidRank")

\* an element-wise call on two equal-shaped operands of several elements succeeded
C9_Witness ==
    /\ op \in ElemOps
    /\ a.shape = b.shape
    /\ Len(a.data) >= 2
    /\ a # b
    /\ IsOk(res)

\* C10: every tensor a public Tensor operation returns successfully has rank
\* 1 or 2 and as many elements as the product of its shape; the one exception
\* is the sentinel (shape [], data []), returned by empty() and by clone of it.
C10_ReturnedTensorsValid ==
    IsOk(res) =>
        \/ ValidTensor(res.val)
        \/ res.val = Tensor_empty /\ (op = "empty" \/ (op = "clone" /\ a = Tensor_empty))

\* a matmul of a vector with a matrix returned a tensor
C10_Witness ==
    /\ op = "matmul"
    /\ Len(a.shape) = 1
    /\ Len(b.shape) = 2
    /\ b.shape[2] = 2
    /\ IsOk(res)

\* ------------------------------------------------------------------------
\* Properties of the layers
\* ------------------------------------------------------------------------
\* element (i, j) of a rank-2 tensor, rows and columns counted from 1
At(t, i, j) == t.data[(i - 1) * t.shape[2] + j]

\* the sum of term(1), ..., term(n), added in this order
RECURSIVE Sigma(_, _)
Sigma(term, n) == IF n = 0 THEN Zero ELSE FAdd(Sigma(term, n - 1), term[n])

\* g . W^T for g of shape [batch, out] and W of shape [in, out]
TimesTransposed(g, W) ==
    Tensor([idx \in 1..(g.shape[1] * W.shape[1]) |->
               LET i == ((idx - 1) \div W.shape[1]) + 1
                   j == ((idx - 1) % W.shape[1]) + 1
               IN  Sigma([k \in 1..W.shape[2] |-> FMul(At(g, i, k), At(W, j, k))],
                         W.shape[2])],
           <<g.shape[1], W.shape[1]>>)

\* W - lr * (x^T . g) for W of shape [in, out], x of shape [batch, in] and g
\* of shape [batch, out]
GradientStep(W, x, g, lr) ==
    Tensor([idx \in 1..(W.shape[1] * W.shape[2]) |->
               LET i == ((idx - 1) \div W.shape[2]) + 1
                   j == ((idx - 1) % W.shape[2]) + 1
               IN  FSub(At(W, i, j),
                        FMul(Sigma([k \in 1..x.shape[1] |-> FMul(At(x, k, i), At(g, k, j))],
                                   x.shape[1]),
                             lr))],
           W.shape)

\* the Linear layer's last forward received x of shape [batch, in_features]
\* and this backward call received g of shape [batch, out_features]
LinearBackwardCase ==
    /\ op = "backward"
    /\ layer.kind = "Linear"
    /\ Len(lastInput.shape) = 2
    /\ lastInput.shape[2] = prev.weight.shape[1]
    /\ a.shape = <<lastInput.shape[1], prev.weight.shape[2]>>

\* C5 (as claimed): backward(g, lr) on a Linear layer whose last forward
\* received x of shape [batch, in] and with g of shape [batch, out] returns
\* g . W^T for the weight W before the call, sets weight to W - lr * (x^T . g)
\* and leaves the cached input unchanged.
C5_LinearBackward ==
    LinearBackwardCase =>
        /\ res = Ok(TimesTransposed(a, prev.weight))
        /\ layer.weight = GradientStep(prev.weight, lastInput, a, arg)
        /\ layer.input = prev.input

\* x . W for x of shape [batch, in], or [in] read as one row, and W of shape
\* [in, out]
Times(x, W) ==
    LET rows == IF Len(x.shape) = 1 THEN 1 ELSE x.shape[1]
        xrow(i, k) == x.data[(i - 1) * W.shape[1] + k]
    IN  Tensor([idx \in 1..(rows * W.shape[2]) |->
                   LET i == ((idx - 1) \div W.shape[2]) + 1
                       j == ((idx - 1) % W.shape[2]) + 1
                   IN  Sigma([k \in 1..W.shape[1] |-> FMul(xrow(i, k), At(W, k, j))],
                             W.shape[1])],
               IF Len(x.shape) = 1 THEN <<W.shape[2]>> ELSE <<rows, W.shape[2]>>)

LinearForwardCase == op = "forward" /\ layer.kind = "Linear"

in_features == prev.weight.shape[1]

Derivative(t, x) ==
    CASE t = "ReLU" -> IF FGtZero(x) THEN One ELSE Zero
      [] t = "Sigmoid" ->
             LET sg == FDiv(One, FAdd(One, FExp(FNeg(x))))
             IN  FMul(sg, FSub(One, sg))
      [] t = "Tanh" ->
             LET th == FDiv(FSub(FExp(x), FExp(FNeg(x))), FAdd(FExp(x), FExp(FNeg(x))))
             IN  FSub(One, FMul(th, th))

\* g (.) f'(x): the element-wise product, which requires equal shapes
TimesDerivative(t, g, x) ==
    IF g.shape # x.shape THEN Err("ShapeMismatch")
    ELSE Ok(Tensor([i \in 1..Len(x.data) |-> FMul(g.data[i], Derivative(t, x.data[i]))],
                   x.shape))

\* a backward call on an Activation layer after a forward that succeeded
ActivationBackwardCase ==
    /\ op = "backward"
    /\ layer.kind = "Activation"
    /\ lastFwd # Tensor_empty

\* C7: every backward(g) on an Activation layer returns g (.) f'(x) for the
\* argument x of the most recent successful forward, and neither this nor any
\* earlier backward has changed the cached input, which is still x.
C7_ActivationBackwardUsesLastForward ==
    ActivationBackwardCase =>
        /\ res = TimesDerivative(layer.t, a, lastFwd)
        /\ layer.input = lastFwd

\* the third call on an Activation layer is a backward that returned a
\* gradient of several elements
C7_Witness ==
    /\ ActivationBackwardCase
    /\ calls = 3
    /\ IsOk(res)
    /\ Len(a.data) >= 2
    /\ a # lastFwd

\* the number of elements a shape of rank 1 or 2 stands for
Elements(shape) == IF Len(shape) = 1 THEN shape[1] ELSE shape[1] * shape[2]

\* C11: Tensor::new(data, shape) returns InvalidRank when the rank of shape is 0 or
\* more than 2, whatever the length of data; for rank 1 or 2 it returns
\* InconsistentData when the length of data differs from the product of shape, and
\* succeeds otherwise.
C11_NewErrors ==
    op = "new" =>
        IF Len(arg[2]) \notin {1, 2} THEN res = Err("InvalidRank")
        ELSE IF Len(arg[1]) # Elements(arg[2]) THEN res = Err("InconsistentData")
        ELSE IsOk(res)

\* Tensor::new returned InvalidRank for a shape of rank 3 and data of another length
\* than the product of that shape
C11_Witness ==
    /\ op = "new"
    /\ Len(arg[2]) = 3
    /\ Len(arg[1]) # arg[2][1] * arg[2][2] * arg[2][3]
    /\ Len(arg[1]) > 0
    /\ res = Err("InvalidRank")

\* C12: the tensor Tensor::new returns for accepted data and shape hands out, from
\* data() and shape(), the data element for element in order and the shape.
C12_AccessorsRoundTrip ==
    (op = "new" /\ IsOk(res)) =>
        /\ Tensor_data(res.val) = arg[1]
        /\ Tensor_shape(res.val) = arg[2]

\* Tensor::new accepted a matrix of several elements that differ
C12_Witness ==
    /\ op = "new"
    /\ IsOk(res)
    /\ Len(arg[2]) = 2
    /\ Len(arg[1]) >= 2
    /\ arg[1][1] # arg[1][Len(arg[1])]
    /\ Tensor_data(res.val) = arg[1]

\* the matrix product a . b, a rank-1 a read as one row and a rank-1 b as one
\* column: entry (i, j) is the sum over k of a[i][k] * b[k][j]
MatrixProduct(x, y) ==
    LET m == IF Len(x.shape) = 1 THEN 1 ELSE x.shape[1]
        n == IF Len(x.shape) = 1 THEN x.shape[1] ELSE x.shape[2]
        p == IF Len(y.shape) = 1 THEN 1 ELSE y.shape[2]
    IN  Tensor([idx \in 1..(m * p) |->
                   LET i == ((idx - 1) \div p) + 1
                       j == ((idx - 1) % p) + 1
                   IN  Sigma([k \in 1..n |->
                                 FMul(x.data[(i - 1) * n + k], y.data[(k - 1) * p + j])], n)],
               IF Len(x.shape) = 1 /\ Len(y.shape) = 1 THEN <<1>>
               ELSE IF Len(x.shape) = 1 THEN <<p>>
               ELSE IF Len(y.shape) = 1 THEN <<m>>
               ELSE <<m, p>>)

\* the columns of the left operand and the rows of the right operand differ
InnerDimensionsDiffer ==
    (IF Len(a.shape) = 1 THEN a.shape[1] ELSE a.shape[2]) # b.shape[1]

\* C13: on operands of rank 1 or 2, matmul and matmul_naive fail with ShapeMismatch
\* exactly when the inner dimensions differ and otherwise return the matrix product,
\* of shape [1], [b_cols], [a_rows] or [a_rows, b_cols] by the ranks of the operands.
C13_MatmulSemantics ==
    (op \in {"matmul", "matmul_naive"} /\ Len(a.shape) \in {1, 2} /\ Len(b.shape) \in {1, 2})
        => IF InnerDimensionsDiffer THEN res = Err("ShapeMismatch")
           ELSE res = Ok(MatrixProduct(a, b))

\* C14: no call aborts the process: every call on operands from the public
\* constructors, zero-sized dimensions and the sentinel included, returns.
C14_NoPanic == res.tag # "Panic"

\* the total of the elements of a tensor, added first to last
Total(t) == Sigma(t.data, Len(t.data))

\* the sums of the columns and of the rows of a rank-2 tensor
ColumnSums(t) == [c \in 1..t.shape[2] |-> Sigma([r \in 1..t.shape[1] |-> At(t, r, c)], t.shape[1])]
RowSums(t) == [r \in 1..t.shape[1] |-> Sigma([c \in 1..t.shape[2] |-> At(t, r, c)], t.shape[2])]

\* C15: sum(None) returns the total of all elements in shape [1]; on a rank-2 [r, c]
\* tensor sum(Some(0)) returns the c column sums and sum(Some(1)) the r row sums; on
\* a rank-1 tensor both return what sum(None) returns; an axis of 2 or more fails
\* with InvalidRank on every tensor.
C15_Sum ==
    op = "sum" =>
        /\ arg = None => res = Ok(Tensor(<<Total(a)>>, <<1>>))
        /\ (arg \in {Some(0), Some(1)} /\ Len(a.shape) = 1)
               => res = Ok(Tensor(<<Total(a)>>, <<1>>))
        /\ (arg = Some(0) /\ Len(a.shape) = 2)
               => res = Ok(Tensor(ColumnSums(a), <<a.shape[2]>>))
        /\ (arg = Some(1) /\ Len(a.shape) = 2)
               => res = Ok(Tensor(RowSums(a), <<a.shape[1]>>))
        /\ (arg # None /\ arg[1] >= 2) => res = Err("InvalidRank")

\* sum(Some(0)) returned the column sums of a 2 x 2 matrix whose row sums differ
\* from them
C15_Witness ==
    /\ op = "sum"
    /\ arg = Some(0)
    /\ a.shape = <<2, 2>>
    /\ IsOk(res)
    /\ res.val.data = ColumnSums(a)
    /\ ColumnSums(a) # RowSums(a)

\* C16: transposing a rank-2 tensor twice returns a tensor of the same shape and
\* data, zero-sized dimensions included; transposing a rank-1 tensor once returns
\* a tensor equal to it.
C16_TransposeInvolution ==
    op = "transpose" =>
        /\ Len(a.shape) = 2 => (IsOk(res) /\ transpose(res.val) = Ok(a))
        /\ Len(a.shape) = 1 => res = Ok(a)

\* a transpose of a 2 x 2 matrix returned other data than it was given
C16_Witness ==
    /\ op = "transpose"
    /\ a.shape = <<2, 2>>
    /\ IsOk(res)
    /\ res.val.data # a.data
    /\ transpose(res.val) = Ok(a)

\* the sum over all elements, the sum of the column sums and the sum of the row
\* sums of a rank-2 tensor are the same f32 value
SumsAgree(t) ==
    /\ IsOk(sum(t, None)) /\ IsOk(sum(t, Some(0))) /\ IsOk(sum(t, Some(1)))
    /\ sum(t, None).val.data[1] = Total(sum(t, Some(0)).val)
    /\ sum(t, None).val.data[1] = Total(sum(t, Some(1)).val)

\* every element is finite and the absolute values together stay within the
\* mantissa, so that no addition of elements rounds or overflows
RECURSIVE AbsTotal(_, _)
AbsTotal(data, n) == IF n = 0 THEN 0 ELSE AbsTotal(data, n - 1) + Abs(data[n][1])
AddsExactly(t) ==
    /\ \A i \in 1..Len(t.data) : t.data[i][2] = 1
    /\ AbsTotal(t.data, Len(t.data)) <= Mantissa

\* C17 as stated: for every rank-2 tensor the element of sum(None) equals the
\* sum of the elements of sum(Some(0)) and of sum(Some(1)).
C17_SumsAgreeAlways ==
    (op = "sum" /\ Len(a.shape) = 2) => SumsAgree(a)

\* C17: for every rank-2 tensor whose elements add without rounding or
\* overflow, the element of sum(None) equals the sum of the elements of
\* sum(Some(0)) and the sum of the elements of sum(Some(1)).
C17_SumsAgreeWhenExact ==
    (op = "sum" /\ Len(a.shape) = 2 /\ AddsExactly(a)) => SumsAgree(a)

\* sum(None) ran on a 2 x 2 matrix of several values that add exactly
C17_Witness ==
    /\ op = "sum"
    /\ arg = None
    /\ a.shape = <<2, 2>>
    /\ AddsExactly(a)
    /\ a.data[1] # a.data[2]
    /\ a.data[2] # a.data[3]
    /\ IsOk(res)
    /\ res.val.data[1] = Total(sum(a, Some(1)).val)

LossFunctions == {"l1_loss", "mse_loss", "mse_loss_gradient", "bce_sigmoid_delta"}

\* C18: a call of l1_loss, mse_loss, mse_loss_gradient or bce_sigmoid_delta on
\* operands of different shapes returns ShapeMismatch, also when the operands
\* have the same number of elements; every call of the four leaves both
\* operands and all other state as they were.
C18_LossFunctions ==
    [][op' \in LossFunctions =>
          /\ a' = a /\ b' = b
          /\ UNCHANGED otherT
          /\ a.shape # b.shape => res' = Err("ShapeMismatch")]_vars

\* mse_loss_gradient refused a [1, 2] prediction against a [2, 1] target
C18_Witness ==
    /\ op = "mse_loss_gradient"
    /\ a.shape = <<1, 2>>
    /\ b.shape = <<2, 1>>
    /\ res = Err("ShapeMismatch")

\* no element of the tensor is infinite or NaN
AllFinite(t) == \A i \in 1..Len(t.data) : t.data[i][2] # 0

\* C19 as stated: for every tensor x accepted by Tensor::new, mse_loss(x, x) and
\* l1_loss(x, x) return the [1]-shaped tensor holding 0.
C19_ZeroLossOfAny ==
    (op \in {"l1_loss", "mse_loss"} /\ a = b /\ Len(a.shape) \in {1, 2})
        => res = Ok(Tensor(<<Zero>>, <<1>>))

\* C19: for every tensor x accepted by Tensor::new, mse_loss(x, x) and
\* l1_loss(x, x) return a [1]-shaped tensor; its element is 0 if x has at least
\* one element and only finite elements, and NaN otherwise.
C19_ZeroLossOfFinite ==
    (op \in {"l1_loss", "mse_loss"} /\ a = b /\ Len(a.shape) \in {1, 2})
        => IF Len(a.data) >= 1 /\ AllFinite(a)
           THEN res = Ok(Tensor(<<Zero>>, <<1>>))
           ELSE res = Ok(Tensor(<<NaN>>, <<1>>))

\* mse_loss of a 2 x 2 matrix of several finite values against itself returned 0
C19_Witness ==
    /\ op = "mse_loss"
    /\ a = b
    /\ a.shape = <<2, 2>>
    /\ AllFinite(a)
    /\ a.data[1] # a.data[2]
    /\ res = Ok(Tensor(<<Zero>>, <<1>>))

\* the shape has a length of 0 or of more than 2
RankInvalid(shape) == Len(shape) \notin {1, 2}

\* C20: InvalidRank is the outcome of a constructor given a shape of length 0
\* or more than 2, and of sum (whatever the axis), of transpose and of matmul
\* and matmul_naive (as either operand) on a tensor of such a shape.
C20_InvalidRank ==
    /\ (op = "new" /\ RankInvalid(arg[2])) => res = Err("InvalidRank")
    /\ (op = "one" /\ RankInvalid(arg[1])) => res = Err("InvalidRank")
    /\ (op \in {"sum", "transpose"} /\ RankInvalid(a.shape)) => res = Err("InvalidRank")
    /\ (op \in {"matmul", "matmul_naive"} /\ (RankInvalid(a.shape) \/ RankInvalid(b.shape)))
           => res = Err("InvalidRank")

\* C21: transpose of a rank-2 tensor of shape [r, c] returns shape [c, r] with
\* out[j*r+i] = in[i*c+j] for all 0 <= i < r, 0 <= j < c; transpose of a rank-1
\* tensor returns a tensor of the same data and shape; the operand is as it was.
C21_Transpose ==
    [][op' = "transpose" =>
          /\ a' = a
          /\ Len(a.shape) = 2 =>
                 /\ IsOk(res')
                 /\ res'.val.shape = <<a.shape[2], a.shape[1]>>
                 /\ Len(res'.val.data) = Len(a.data)
                 /\ \A i \in 0..(a.shape[1] - 1) : \A j \in 0..(a.shape[2] - 1) :
                        res'.val.data[j * a.shape[1] + i + 1] = a.data[i * a.shape[2] + j + 1]
          /\ Len(a.shape) = 1 => res' = Ok(a)]_vars

\* the transpose of a 2 x 2 matrix holds the element of row 1, column 0 at
\* row 0, column 1, where the matrix holds another value
C21_Witness ==
    /\ op = "transpose"
    /\ a.shape = <<2, 2>>
    /\ IsOk(res)
    /\ a.data[2] # a.data[3]
    /\ res.val.data[2] = a.data[3]
    /\ res.val.data[3] = a.data[2]

\* C23: on an Activation layer of any kind, forward(x) on a tensor x returns a
\* tensor of the shape of x; backward(g) after it returns a tensor of the shape
\* of x if g has the shape of x and ShapeMismatch if not; backward returns the
\* same and leaves the layer the same whatever the learning rate.
C23_ShapePreserving ==
    layer.kind = "Activation" =>
        /\ (op = "forward" /\ Len(a.shape) \in {1, 2}) =>
               (IsOk(res) /\ res.val.shape = a.shape)
        /\ ActivationBackwardCase =>
               /\ a.shape = lastFwd.shape => (IsOk(res) /\ res.val.shape = lastFwd.shape)
               /\ a.shape # lastFwd.shape => res = Err("ShapeMismatch")
               /\ layer = prev
               /\ \A lr \in ActivationRates :
                      Activation_backward(prev, a, lr) = Call(layer, res)

\* a backward with a learning rate of 0 on a ReLU layer returned a tensor of
\* the rank-2 shape of the last forward input
C23_Witness ==
    /\ ActivationBackwardCase
    /\ layer.t = "ReLU"
    /\ arg = Zero
    /\ Len(lastFwd.shape) = 2
    /\ Len(lastFwd.data) >= 2
    /\ IsOk(res)
    /\ res.val.shape = lastFwd.shape

\* a call on a ReLU layer: a forward on a tensor, or a backward after a
\* successful forward with a gradient of the shape of its input
ReluForwardCase ==
    /\ op = "forward"
    /\ layer.kind = "Activation"
    /\ layer.t = "ReLU"
    /\ Len(a.shape) \in {1, 2}
ReluBackwardCase ==
    /\ ActivationBackwardCase
    /\ layer.t = "ReLU"
    /\ a.shape = lastFwd.shape

\* forward on a ReLU layer, which returns input.relu(), maps x to x if x > 0 and
\* to 0 otherwise
ReluMapsElements ==
    ReluForwardCase =>
        res = Ok(Tensor([i \in 1..Len(a.data) |->
                            IF FGtZero(a.data[i]) THEN a.data[i] ELSE Zero], a.shape))

\* C24 as stated: relu maps x to x if x > 0 and to 0 otherwise; backward(g) on a
\* ReLU layer after forward(x) returns g[i] where x[i] > 0 and 0 where x[i] <= 0.
C24_ReluMasksToZero ==
    /\ ReluMapsElements
    /\ ReluBackwardCase =>
           res = Ok(Tensor([i \in 1..Len(a.data) |->
                               IF FGtZero(lastFwd.data[i]) THEN a.data[i] ELSE Zero],
                           a.shape))

\* C24: relu maps x to x if x > 0 and to 0 otherwise; backward(g) on a ReLU
\* layer after forward(x) returns g[i] where x[i] > 0; where x[i] <= 0 it returns
\* g[i] * 0, which is 0 for a finite g[i] and NaN for an infinite or NaN g[i].
C24_ReluMasks ==
    /\ ReluMapsElements
    /\ ReluBackwardCase =>
           res = Ok(Tensor([i \in 1..Len(a.data) |->
                               IF FGtZero(lastFwd.data[i]) THEN a.data[i]
                               ELSE IF a.data[i][2] # 0 THEN Zero
                               ELSE NaN],
                           a.shape))

\* a backward on a ReLU layer whose last input holds 0.0 and a negative element
\* returned 0 for a non-zero finite gradient element
C24_Witness ==
    /\ ReluBackwardCase
    /\ Len(a.data) >= 2
    /\ lastFwd.data[1] = Zero
    /\ lastFwd.data[2] = FInt(-1)
    /\ a.data[2] = FInt(-1)
    /\ IsOk(res)
    /\ res.val.data[2] = Zero

\* p - a element by element, for the operands a as p and b as a of a loss call
Difference == [i \in 1..Len(a.data) |-> FSub(a.data[i], b.data[i])]

\* the tensor of the shape of the operands holding factor * (p - a)
ScaledDifference(factor) ==
    Ok(Tensor([i \in 1..Len(a.data) |-> FMul(Difference[i], factor)], a.shape))

\* the [1]-shaped tensor holding factor * the sum of the terms
ScaledTotal(terms, factor) ==
    Ok(Tensor(<<FMul(Sigma(terms, Len(terms)), factor)>>, <<1>>))

\* what the four loss functions return on tensors of one shape: the gradient of
\* the mean squared error uses 2 / shape[0], the other three 1 / the number of
\* elements
LossDenominators ==
    (op \in LossFunctions /\ a.shape = b.shape /\ Len(a.shape) \in {1, 2}) =>
        /\ op = "mse_loss_gradient" =>
               res = ScaledDifference(FDiv(FInt(2), FInt(a.shape[1])))
        /\ op = "bce_sigmoid_delta" =>
               res = ScaledDifference(FDiv(One, FInt(Elements(a.shape))))
        /\ op = "mse_loss" =>
               res = ScaledTotal([i \in 1..Len(a.data) |-> FMul(Difference[i], Difference[i])],
                                 FDiv(One, FInt(Elements(a.shape))))
        /\ op = "l1_loss" =>
               res = ScaledTotal([i \in 1..Len(a.data) |-> FAbs(Difference[i])],
                                 FDiv(One, FInt(Elements(a.shape))))

\* every dimension after the first has size 1
TrailingDimensionsOne(shape) == \A k \in 2..Len(shape) : shape[k] = 1

C26_WeightShape ==
    /\ layer.kind = "Linear" =>
           \E i \in LayerDims : \E o \in LayerDims :
               /\ layer.weight.shape = <<i, o>>
               /\ Len(layer.weight.data) = i * o
    /\ [][layer.kind = "Linear" =>
              /\ layer'.weight.shape = layer.weight.shape
              /\ Len(layer'.weight.data) = Len(layer.weight.data)]_vars

\* the third call on a Linear layer is a backward that changed a weight of
\* several elements, after a call that failed
C26_Witness ==
    /\ layer.kind = "Linear"
    /\ calls = 3
    /\ op = "backward"
    /\ IsOk(res)
    /\ layer.weight # prev.weight
    /\ layer.weight.shape = prev.weight.shape
    /\ Len(layer.weight.data) >= 2
    /\ lastInput # lastFwd

\* a backward call on a Linear layer
LinearBackwardCall == op = "backward" /\ layer.kind = "Linear"

\* C27: a Linear::backward that returns an error leaves the weight and the
\* cached input of the layer as they were before the call; the weight is other
\* than before only after a backward that returned Ok, and no backward changes
\* the cached input.
C27_BackwardAllOrNothing ==
    LinearBackwardCall =>
        /\ res.tag = "Err" => layer = prev
        /\ layer.weight # prev.weight => IsOk(res)
        /\ layer.input = prev.input

\* a backward on a Linear layer with a weight of several elements returned
\* ShapeMismatch after a forward that succeeded
C27_Witness ==
    /\ LinearBackwardCall
    /\ res = Err("ShapeMismatch")
    /\ lastFwd # Tensor_empty
    /\ layer.input # Tensor_empty
    /\ Len(layer.weight.data) >= 2
    /\ Len(a.shape) = 2

\* C28: a Linear::forward(x) that returns ShapeMismatch has left the weight as
\* it was and made x, of rank 1 or 2, the cached input; a forward on the rank-0
\* sentinel returns InvalidRank and leaves the layer as it was; a backward after
\* a forward on a tensor x reads x as the cached input, whether that forward
\* succeeded or not.
C28_ForwardCachesFirst ==
    /\ (LinearForwardCase /\ res = Err("ShapeMismatch")) =>
           /\ layer.weight = prev.weight
           /\ layer.input = a
           /\ Len(a.shape) \in {1, 2}
    /\ (LinearForwardCase /\ Len(a.shape) = 0) =>
           /\ res = Err("InvalidRank")
           /\ layer = prev
    /\ (LinearForwardCase /\ res.tag = "Err" /\ res # Err("ShapeMismatch")) =>
           Len(a.shape) = 0
    /\ (LinearBackwardCall /\ lastInput # Tensor_empty) =>
           /\ prev.input = lastInput
           /\ Call(layer, res) = Linear_backward([prev EXCEPT !.input = lastInput], a, arg)

\* after a forward that succeeded and a forward that returned ShapeMismatch, a
\* backward with a gradient that fits the first forward worked on the input of
\* the second and failed
C28_Witness ==
    /\ LinearBackwardCall
    /\ calls = 3
    /\ lastFwd # Tensor_empty
    /\ lastInput # Tensor_empty
    /\ lastInput # lastFwd
    /\ Len(lastFwd.shape) = 2
    /\ a.shape = <<lastFwd.shape[1], prev.weight.shape[2]>>
    /\ Len(a.data) >= 1
    /\ prev.input = lastInput
    /\ res.tag = "Err"

\* the first call on a layer as its constructor returned it is a backward
BackwardBeforeForward == op = "backward" /\ calls = 1

out_features == prev.weight.shape[2]

\* the dimension of g that a product g . W^T sums over
InnerDimension(g) == IF Len(g.shape) = 1 THEN g.shape[1] ELSE g.shape[2]

\* C29 as stated: backward before any forward returns InvalidRank on an
\* Activation layer; on a Linear layer it leaves the weight as it was and
\* returns InvalidRank if output_error is compatible with the weight and
\* ShapeMismatch if not.
C29_BackwardFirstAsStated ==
    BackwardBeforeForward =>
        /\ layer.kind = "Activation" => res = Err("InvalidRank")
        /\ layer.kind = "Linear" =>
               /\ layer.weight = prev.weight
               /\ res = IF Len(a.shape) \in {1, 2} /\ InnerDimension(a) = out_features
                        THEN Err("InvalidRank")
                        ELSE Err("ShapeMismatch")

\* C29: backward before any forward never returns Ok and leaves the layer as it
\* was. An Activation layer returns InvalidRank for every output_error. A Linear
\* layer returns InvalidRank for the rank-0 sentinel, ShapeMismatch for an
\* output_error whose inner dimension is not out_features, and for one whose
\* inner dimension is out_features InvalidRank if out_features >= 1, while with
\* out_features = 0 the call does not return.
C29_BackwardFirst ==
    BackwardBeforeForward =>
        /\ ~IsOk(res)
        /\ layer = prev
        /\ layer.kind = "Activation" => res = Err("InvalidRank")
        /\ layer.kind = "Linear" =>
               res = IF Len(a.shape) = 0 THEN Err("InvalidRank")
                     ELSE IF InnerDimension(a) # out_features THEN Err("ShapeMismatch")
                     ELSE IF out_features = 0 THEN Panic
                     ELSE Err("InvalidRank")

\* the first call on a Linear layer is a backward with an output_error that
\* fits the weight, and returned InvalidRank
C29_Witness ==
    /\ BackwardBeforeForward
    /\ layer.kind = "Linear"
    /\ Len(a.shape) = 2
    /\ a.shape[2] = out_features
    /\ Len(a.data) >= 2
    /\ res = Err("InvalidRank")

\* ------------------------------------------------------------------------
\* Properties of the network
\* ------------------------------------------------------------------------
NumLayers == Len(net.layers)

\* the number of calls one epoch of fit makes: n forwards, the loss gradient, n backwards
CallsPerEpoch == 2 * NumLayers + 1

\* the call that belongs at position p of the log of a fit
ExpectedCall(p) ==
    LET q == (p - 1) % CallsPerEpoch
    IN  IF q < NumLayers
        THEN Logged("forward", q + 1,
                    IF q = 0 THEN x_train ELSE log[p - 1].res.val, NoArg, NoResult)
        ELSE IF q = NumLayers
        THEN Logged("loss_grad_fn", 0,
                    IF q = 0 THEN x_train ELSE log[p - 1].res.val, y_train, NoResult)
        ELSE Logged("backward", 2 * NumLayers - q + 1,
                    log[p - 1].res.val, learning_rate, NoResult)

\* the call at position p of the log is the expected one, made on the expected arguments
AsExpected(p) == [log[p] EXCEPT !.res = NoResult] = ExpectedCall(p)

NoCallFailed == \A p \in 1..Len(log) : IsOk(log[p].res)

CopyOfXTrain == Tensor_new(x_train.data, x_train.shape)

\* C1: while no call of a fit has failed, the calls made so far are, epoch after epoch,
\* forward on layers 0..n-1 in insertion order (the first on a copy of x_train, each
\* next on the previous output), the loss gradient once on (last output, y_train),
\* backward on layers n-1..0 (the first on the loss gradient, each next on the value
\* the previous backward returned, all with learning_rate); never more than epochs
\* epochs of them, and exactly epochs epochs when fit has returned: none at all with
\* epochs = 0.
C1_FitEpochs ==
    entry = "fit" =>
        /\ \A p \in 1..Len(log) :
               (\A q \in 1..(p - 1) : IsOk(log[q].res)) => AsExpected(p)
        /\ Len(log) <= epochs * CallsPerEpoch
        /\ (epochs > 0 /\ log # <<>>) => IsOk(CopyOfXTrain)
        /\ (pc = "returned" /\ NoCallFailed /\ (epochs > 0 => IsOk(CopyOfXTrain)))
               => (ret = OkUnit /\ Len(log) = epochs * CallsPerEpoch)

\* a fit of MaxEpochs epochs over MaxLayers layers has returned Ok(())
C1_Witness ==
    /\ entry = "fit"
    /\ pc = "returned"
    /\ ret = OkUnit
    /\ epochs = MaxEpochs
    /\ NumLayers = MaxLayers
    /\ Len(log) = MaxEpochs * (2 * MaxLayers + 1)

\* C2: in a fit, a call that returned an error is the last call made, fit has returned
\* and returned that error; an error of the copy of x_train is returned before any
\* call is made.
C2_FitReturnsError ==
    entry = "fit" =>
        /\ \A p \in 1..(Len(log) - 1) : IsOk(log[p].res)
        /\ (log # <<>> /\ log[Len(log)].res.tag = "Err")
               => (pc = "returned" /\ ret = log[Len(log)].res)
        /\ (epochs > 0 /\ ~IsOk(CopyOfXTrain) /\ pc # "fit_epoch")
               => (pc = "returned" /\ ret = CopyOfXTrain /\ log = <<>>)
        /\ (pc = "returned" /\ ret.tag = "Err")
               => \/ log = <<>> /\ ret = CopyOfXTrain
                  \/ log # <<>> /\ ret = log[Len(log)].res

\* a fit has returned the error of a backward call that followed a successful one
C2_Witness ==
    /\ entry = "fit"
    /\ pc = "returned"
    /\ log # <<>>
    /\ log[Len(log)].fn = "backward"
    /\ log[Len(log)].idx < NumLayers
    /\ log[Len(log)].res.tag = "Err"
    /\ ret = log[Len(log)].res

\* C3: Network.forward on an empty layer list has returned its input and called no
\* layer; otherwise the calls made so far are forward on layers 0, 1, ... in insertion
\* order, the first on input and each next on the previous output, only the last of
\* them may have failed, and forward returns what the last call returned: after the
\* last layer, or at once after a failed call.
C3_NetworkForward ==
    entry = "forward" =>
        /\ NumLayers = 0 => (pc = "returned" /\ ret = Ok(input) /\ log = <<>>)
        /\ \A p \in 1..Len(log) :
               /\ log[p].fn = "forward"
               /\ log[p].idx = p
               /\ log[p].arg = IF p = 1 THEN input ELSE log[p - 1].res.val
               /\ p < Len(log) => IsOk(log[p].res)
        /\ Len(log) <= NumLayers
        /\ (log # <<>> /\ log[Len(log)].res.tag = "Err") => pc = "returned"
        /\ (pc = "returned" /\ NumLayers > 0)
               => /\ log # <<>>
                  /\ ret = log[Len(log)].res
                  /\ IsOk(ret) => Len(log) = NumLayers
        /\ pc = "forward" => Len(log) < NumLayers

\* a forward through MaxLayers layers has returned the output of the last layer
C3_Witness ==
    /\ entry = "forward"
    /\ pc = "returned"
    /\ NumLayers = MaxLayers
    /\ Len(log) = MaxLayers
    /\ IsOk(ret)
    /\ ret = log[MaxLayers].res

\* the layers of the add_layer calls of a builder history, in call order
RECURSIVE AddedLayers(_)
AddedLayers(h) ==
    IF h = <<>> THEN <<>>
    ELSE (IF h[1][1] = "add_layer" THEN <<h[1][2]>> ELSE <<>>) \o AddedLayers(Tail(h))

\* the function of the last loss_gradient call of a builder history
RECURSIVE LastLossGradient(_)
LastLossGradient(h) ==
    IF h = <<>> THEN NoLossGrad
    ELSE IF h[Len(h)][1] = "loss_gradient" THEN h[Len(h)][2]
    ELSE LastLossGradient(SubSeq(h, 1, Len(h) - 1))

\* C4: build() has failed exactly when no loss_gradient call was made on the builder;
\* the Network of a successful build holds the layers of the add_layer calls in call
\* order and the function of the last loss_gradient call.
C4_Build ==
    pc \in {"built", "build_failed"} =>
        /\ (pc = "build_failed") <=> (LossCalls(history) = 0)
        /\ (pc = "build_failed") <=> (ret.tag = "Err")
        /\ pc = "built" =>
               /\ net.layers = AddedLayers(history)
               /\ net.loss_grad_fn = LastLossGradient(history)

\* a Network built after MaxLayers add_layer calls and two loss_gradient calls with
\* different functions, the first of them before the last add_layer
C4_Witness ==
    /\ pc = "built"
    /\ NumLayers = MaxLayers
    /\ \E i, j \in 1..Len(history) :
           /\ i < j
           /\ j < Len(history)
           /\ history[i][1] = "loss_gradient"
           /\ history[j][1] = "loss_gradient"
           /\ history[i][2] # history[j][2]
           /\ history[Len(history)][1] = "add_layer"

\* the layers ls2 are the layers ls1 but for their cached inputs
SameButInputs(ls1, ls2) ==
    /\ Len(ls1) = Len(ls2)
    /\ \A i \in 1..Len(ls1) :
           /\ ls1[i].kind = ls2[i].kind
           /\ ls1[i].t = ls2[i].t
           /\ ls1[i].weight = ls2[i].weight

\* C22: no step of Network::forward, called directly or by fit, and so no
\* Linear::forward or Activation::forward it makes, changes a weight, the
\* sequence of layers or the loss gradient function; in a built network a
\* weight changes only in a step of the backward loop of fit.
C22_ForwardFrame ==
    [][/\ (entry' = "forward" \/ pc = "fit_forward") =>
              /\ SameButInputs(net.layers, net'.layers)
              /\ net'.loss_grad_fn = net.loss_grad_fn
       /\ (pc # "building" /\ ~SameButInputs(net.layers, net'.layers)) =>
              (pc = "fit_backward" /\ entry = "fit")]_vars

\* a forward call on a network returned after a Linear layer replaced its cached
\* input
C22_Witness ==
    /\ entry = "forward"
    /\ pc = "returned"
    /\ IsOk(ret)
    /\ \E i \in 1..NumLayers :
           /\ net.layers[i].kind = "Linear"
           /\ net.layers[i].input # Tensor_empty
           /\ Len(net.layers[i].weight.data) >= 1

\* the positions in the log of a fit of the first call of the epoch of position
\* p, of its loss gradient call, and of its forward call on layer i
EpochStart(p) == ((p - 1) \div CallsPerEpoch) * CallsPerEpoch
LossPosition(p) == EpochStart(p) + NumLayers + 1
ForwardPosition(p, i) == EpochStart(p) + i

\* x_train is of rank 2 and every dimension of it and of the layers is positive
PositiveDimensions ==
    /\ Len(x_train.shape) = 2
    /\ x_train.shape[1] > 0
    /\ x_train.shape[2] > 0
    /\ \A i \in 1..NumLayers :
           net.layers[i].kind = "Linear" =>
               (net.layers[i].weight.shape[1] > 0 /\ net.layers[i].weight.shape[2] > 0)

\* the loss gradient of the epoch of position p has the shape of the output of
\* the network
LossGradientFits(p) ==
    /\ IsOk(log[LossPosition(p)].res)
    /\ log[LossPosition(p)].res.val.shape = log[LossPosition(p)].arg.shape

\* C30: in a fit on a rank-2 x_train with all dimensions positive, in an epoch
\* whose forward pass succeeded and whose loss gradient has the shape of the
\* network output, every backward call receives a gradient of the shape of the
\* forward output of its layer and succeeds; so fit does not return the error
\* of a backward call of such an epoch.
C30_BackwardSucceeds ==
    (entry = "fit" /\ PositiveDimensions) =>
        \A p \in 1..Len(log) :
            (log[p].fn = "backward" /\ LossGradientFits(p)) =>
                /\ IsOk(log[p].res)
                /\ IsOk(log[ForwardPosition(p, log[p].idx)].res)
                /\ log[p].arg.shape = log[ForwardPosition(p, log[p].idx)].res.val.shape
                /\ ~(pc = "returned" /\ ret.tag = "Err" /\ p = Len(log))

\* a fit over a Linear layer of two outputs and a Linear layer of two inputs
\* has run MaxEpochs epochs and returned Ok(())
C30_Witness ==
    /\ entry = "fit"
    /\ PositiveDimensions
    /\ pc = "returned"
    /\ ret = OkUnit
    /\ epochs = MaxEpochs
    /\ NumLayers = 2
    /\ net.layers[1].kind = "Linear"
    /\ net.layers[2].kind = "Linear"
    /\ net.layers[1].weight.shape = <<1, 2>>
    /\ Len(log) = MaxEpochs * CallsPerEpoch
    /\ LossGradientFits(Len(log))
====
